---------------------------- MODULE Spec2Model ----------------------------
(***************************************************************************)
(* Model of the diff engine of the Helm chart diff viewer                  *)
(* (src/components/DiffDisplay.tsx): the filters applied to the raw diff   *)
(* text, parseDiffByResources, categorizeChange, applyContextLines and     *)
(* calculateStatistics.                                                    *)
(*                                                                         *)
(* Strings.  A JavaScript string is modelled as a sequence of tokens.  The *)
(* punctuation the code looks at is kept as single characters              *)
(* (" ", "(", ")", "/", "+", "-", ":", ".", "'" and the newline "\n");     *)
(* a run of letters and digits is one token (a word).  Every string        *)
(* literal of the code is written with the same tokenisation, so that      *)
(* startsWith, includes, split, trim and the regular expressions of the    *)
(* code are computed position by position as the code computes them.       *)
(* A text is kept as the sequence of its lines (text.split('\n')); a text  *)
(* always has at least one line, the empty string being << <<>> >>.        *)
(* A word that holds a shorter literal of the code is cut at that literal: *)
(* "metadata" is written "meta", "data", because the code looks for        *)
(* 'data:' inside any text.  A match of a literal is therefore a match on  *)
(* whole tokens; the inputs of the specifications below hold no word that  *)
(* merely begins or ends with a literal of the code.                       *)
(***************************************************************************)
EXTENDS Integers, Sequences, FiniteSets, TLC

VARIABLES
    pc,      \* position of the operation under way
    args,    \* arguments of the function or props of the component
    ret      \* value returned by the function / computed by the render

vars == <<pc, args, ret>>

\* the initial value of ret: nothing returned yet
None == "none"

\* undefined or null where the code expects a string: a reserved token that
\* no text holds.  A value that is a record or null (currentResource,
\* statistics, the compiled suppressRegex) is kept as a sequence of at most
\* one record; an absent result.diff is the text of no line, <<>>.
Undefined == <<"<undefined>">>

Max(a, b) == IF a >= b THEN a ELSE b
Min(a, b) == IF a <= b THEN a ELSE b

(***************************************************************************)
(* String primitives: the methods of String.prototype the code uses        *)
(***************************************************************************)
IsSpace(c) == c \in {" ", "\n"}

RECURSIVE TrimStart(_)
TrimStart(s) ==
    IF s # <<>> /\ IsSpace(Head(s)) THEN TrimStart(Tail(s)) ELSE s

RECURSIVE TrimEnd(_)
TrimEnd(s) ==
    IF s # <<>> /\ IsSpace(s[Len(s)]) THEN TrimEnd(SubSeq(s, 1, Len(s) - 1)) ELSE s

\* String.prototype.trim
Trim(s) == TrimEnd(TrimStart(s))

\* String.prototype.startsWith
StartsWith(s, p) == Len(p) <= Len(s) /\ SubSeq(s, 1, Len(p)) = p

\* String.prototype.includes
Includes(s, p) ==
    \E i \in 1..(Len(s) - Len(p) + 1) : SubSeq(s, i, i + Len(p) - 1) = p

\* Lower-case form of one token: the words of the model that hold capitals.
Lower(c) ==
    CASE c = "Metadata"       -> "metadata"
      [] c = "Deployment"     -> "deployment"
      [] c = "ServiceAccount" -> "serviceaccount"
      [] c = "Service"        -> "service"
      [] c = "Secret"         -> "secret"
      [] c = "SECRET"         -> "secret"
      [] c = "Namespace"      -> "namespace"
      [] c = "Widget"         -> "widget"
      [] c = "Kind"           -> "kind"
      [] c = "Value"          -> "value"
      [] c = "Data"           -> "data"
      [] OTHER                -> c

\* String.prototype.toLowerCase
ToLowerCase(s) == [i \in 1..Len(s) |-> Lower(s[i])]

\* Positions of the token c in s, as a set
Positions(s, c) == {i \in 1..Len(s) : s[i] = c}

SetMin(S) == CHOOSE x \in S : \A y \in S : x <= y

\* String.prototype.split(sep) for a one-character separator
RECURSIVE Split(_, _)
Split(s, sep) ==
    IF Positions(s, sep) = {} THEN <<s>>
    ELSE LET p == SetMin(Positions(s, sep))
         IN  <<SubSeq(s, 1, p - 1)>> \o Split(SubSeq(s, p + 1, Len(s)), sep)

\* Array.prototype.join('\n') followed by String.prototype.split('\n'):
\* the empty array joins to the empty string, which splits to one empty line.
JoinSplit(ls) == IF ls = <<>> THEN << <<>> >> ELSE ls

\* Concatenation of a sequence of sequences
RECURSIVE Flatten(_)
Flatten(ss) == IF ss = <<>> THEN <<>> ELSE Head(ss) \o Flatten(Tail(ss))

\* Array.prototype.join('\n'): the text whose lines are given
RECURSIVE JoinLines(_)
JoinLines(lines) ==
    IF Len(lines) <= 1 THEN Flatten(lines)
    ELSE Head(lines) \o <<"\n">> \o JoinLines(Tail(lines))

(***************************************************************************)
(* Literals of the code                                                    *)
(***************************************************************************)
Plus     == <<"+">>
Minus    == <<"-">>
Plus3    == <<"+", "+", "+">>
Minus3   == <<"-", "-", "-">>
Ellipsis == <<".", ".", ".">>

(***************************************************************************)
(* applyContextLines (DiffDisplay.tsx 664-704)                             *)
(***************************************************************************)
\* const isChange = trimmed.startsWith('+') || trimmed.startsWith('-')
IsChange(line) == StartsWith(Trim(line), Plus) \/ StartsWith(Trim(line), Minus)

\* the inner loop "for (let j = contextStart; j < contextEnd; j++)":
\* indices are those of the code (0-based), lines[j] is lines[j + 1] here.
RECURSIVE ContextPush(_, _, _, _, _)
ContextPush(lines, j, contextEnd, lastChangeIndex, i) ==
    IF j >= contextEnd THEN <<>>
    ELSE (IF j >= lastChangeIndex + 1 \/ j = i THEN <<lines[j + 1]>> ELSE <<>>)
         \o ContextPush(lines, j + 1, contextEnd, lastChangeIndex, i)

\* the outer loop "for (let i = 0; i < lines.length; i++)"
RECURSIVE ContextLoop(_, _, _, _, _)
ContextLoop(lines, contextLines, i, lastChangeIndex, result) ==
    IF i >= Len(lines) THEN result
    ELSE IF IsChange(lines[i + 1])
         THEN LET contextStart == Max(0, i - contextLines)
                  contextEnd   == Min(Len(lines), i + contextLines + 1)
                  sep == IF lastChangeIndex >= 0 /\ contextStart > lastChangeIndex + 1
                         THEN <<Ellipsis>> ELSE <<>>
              IN  ContextLoop(lines, contextLines, i + 1, i,
                      result \o sep
                        \o ContextPush(lines, contextStart, contextEnd, lastChangeIndex, i))
         ELSE ContextLoop(lines, contextLines, i + 1, lastChangeIndex, result)

applyContextLines(lines, contextLines) ==
    IF contextLines < 0 THEN lines
    ELSE LET result == ContextLoop(lines, contextLines, 0, -1, <<>>)
         IN  IF Len(result) = 0 THEN lines ELSE result

(***************************************************************************)
(* categorizeChange (DiffDisplay.tsx 25-152).  A kind, a name, a path and  *)
(* a category are strings; a category literal is written as one token.     *)
(***************************************************************************)
Workloads     == {"Deployment", "StatefulSet", "DaemonSet", "ReplicaSet", "Job", "CronJob", "Pod"}
Services      == {"Service", "Endpoints", "EndpointSlice"}
Networking    == {"Ingress", "IngressClass", "NetworkPolicy"}
Storage       == {"PersistentVolume", "PersistentVolumeClaim", "StorageClass", "VolumeAttachment"}
Configuration == {"ConfigMap", "Secret"}
RBAC          == {"ServiceAccount", "Role", "RoleBinding", "ClusterRole", "ClusterRoleBinding"}
Policy        == {"PodDisruptionBudget", "PodSecurityPolicy", "LimitRange", "ResourceQuota",
                  "PriorityClass"}
Autoscaling   == {"HorizontalPodAutoscaler", "VerticalPodAutoscaler"}

\* RESOURCE_KIND_CATEGORIES without the entries of the RBAC kinds
RESOURCE_KIND_CATEGORIES_NoRBAC(kind) ==
    IF Len(kind) # 1 THEN Undefined
    ELSE CASE kind[1] \in Workloads     -> <<"Workloads">>
           [] kind[1] \in Services      -> <<"Services">>
           [] kind[1] \in Networking    -> <<"Networking">>
           [] kind[1] \in Storage       -> <<"Storage">>
           [] kind[1] \in Configuration -> <<"Configuration">>
           [] kind[1] \in Policy        -> <<"Policy">>
           [] kind[1] \in Autoscaling   -> <<"Autoscaling">>
           [] OTHER                     -> Undefined

\* RESOURCE_KIND_CATEGORIES[kind], Undefined when the kind has no entry
RESOURCE_KIND_CATEGORIES(kind) ==
    IF Len(kind) # 1 THEN Undefined
    ELSE CASE kind[1] \in Workloads     -> <<"Workloads">>
           [] kind[1] \in Services      -> <<"Services">>
           [] kind[1] \in Networking    -> <<"Networking">>
           [] kind[1] \in Storage       -> <<"Storage">>
           [] kind[1] \in Configuration -> <<"Configuration">>
           [] kind[1] \in RBAC          -> <<"RBAC">>
           [] kind[1] \in Policy        -> <<"Policy">>
           [] kind[1] \in Autoscaling   -> <<"Autoscaling">>
           [] OTHER                     -> Undefined

STANDARD_KUBERNETES_KINDS ==
    Workloads \cup Services \cup Networking \cup Storage \cup Configuration \cup RBAC
      \cup Policy \cup Autoscaling
      \cup {"Namespace", "Node", "Event", "ComponentStatus", "APIService",
            "CustomResourceDefinition", "MutatingWebhookConfiguration",
            "ValidatingWebhookConfiguration", "CertificateSigningRequest", "Lease",
            "CSIDriver", "CSINode", "CSIStorageCapacity", "FlowSchema",
            "PriorityLevelConfiguration", "RuntimeClass", "PodTemplate"}

\* lowerPath.includes('.spec.<word>')
SpecHas(lowerPath, word) == Includes(lowerPath, <<".", "spec", ".", word>>)

categorizeChange(path, kind) ==
    LET lowerPath == ToLowerCase(path)
    IN  IF kind # <<>> /\ RESOURCE_KIND_CATEGORIES(kind) # Undefined
        THEN RESOURCE_KIND_CATEGORIES(kind)
        ELSE IF kind # <<>> /\ ~(Len(kind) = 1 /\ kind[1] \in STANDARD_KUBERNETES_KINDS)
        THEN <<"Custom Resources">>
        ELSE IF \/ Includes(lowerPath, <<"meta", "data", ".", "labels">>)
                \/ Includes(lowerPath, <<"meta", "data", ".", "annotations">>)
        THEN <<"Metadata & Tags">>
        ELSE IF Includes(lowerPath, <<".", "status", ".">>)
        THEN <<"Status">>
        ELSE IF Includes(lowerPath, <<".", "spec", ".">>)
        THEN IF SpecHas(lowerPath, "containers") \/ SpecHas(lowerPath, "image")
                  \/ SpecHas(lowerPath, "template")
             THEN <<"Container & Image">>
             ELSE IF SpecHas(lowerPath, "replicas") \/ SpecHas(lowerPath, "scale")
             THEN <<"Scaling">>
             ELSE IF SpecHas(lowerPath, "service") \/ SpecHas(lowerPath, "port")
                       \/ SpecHas(lowerPath, "type")
             THEN <<"Service Configuration">>
             ELSE IF SpecHas(lowerPath, "selector") \/ SpecHas(lowerPath, "matchlabels")
             THEN <<"Selectors & Matching">>
             ELSE IF SpecHas(lowerPath, "resources") \/ SpecHas(lowerPath, "limits")
                       \/ SpecHas(lowerPath, "requests")
             THEN <<"Resources">>
             ELSE IF SpecHas(lowerPath, "env") \/ SpecHas(lowerPath, "configmap")
                       \/ SpecHas(lowerPath, "secret")
             THEN <<"Environment & Config">>
             ELSE IF SpecHas(lowerPath, "volume") \/ SpecHas(lowerPath, "persistentvolume")
             THEN <<"Storage & Volumes">>
             ELSE IF SpecHas(lowerPath, "ingress") \/ SpecHas(lowerPath, "host")
                       \/ SpecHas(lowerPath, "path")
             THEN <<"Networking">>
             ELSE <<"Spec Changes">>
        ELSE IF \/ Includes(lowerPath, <<".", "data", ".">>)
                \/ Includes(lowerPath, <<"configmap">>)
                \/ Includes(lowerPath, <<"secret">>)
        THEN <<"Configuration Data">>
        ELSE IF kind # <<>> THEN kind ELSE <<"Other">>

(***************************************************************************)
(* Regular expressions of the code                                         *)
(***************************************************************************)
\* index of the first ")" after position i, or 0 when there is none
FirstClose(s, i) ==
    LET later == {j \in (i + 1)..Len(s) : s[j] = ")"}
    IN  IF later = {} THEN 0 ELSE SetMin(later)

\* positions where /\(([^)]+)\)/ can match: a "(" followed, after at least
\* one character that is not ")", by a ")"
DyffStarts(s) == {i \in Positions(s, "(") : FirstClose(s, i) > i + 1}

\* s.match(/\(([^)]+)\)/): does the dyff pattern match
DyffMatches(s) == DyffStarts(s) # {}

\* resourceMatch[1]: the capture of the leftmost match of the dyff pattern
DyffCapture(s) ==
    LET i == SetMin(DyffStarts(s))
    IN  SubSeq(s, i + 1, FirstClose(s, i) - 1)

\* s.match(/\([^)]+\/[^)]+\/[^)]+\)/): a parenthesis holding at least three
\* non-empty stretches separated by "/"
ThreePartMatches(s) ==
    \E i \in Positions(s, "(") :
        LET j == FirstClose(s, i)
        IN  \E p, q \in Positions(s, "/") :
                /\ i + 1 < p
                /\ p + 1 < q
                /\ q + 1 < j

(***************************************************************************)
(* parseDiffByResources (DiffDisplay.tsx 154-364).  A ResourceDiff is a    *)
(* record; namespace is Undefined when absent.  The field diff, which is   *)
(* written and never read, is left out.                                    *)
(***************************************************************************)
\* a || b on strings: the empty string is falsy
OrElse(a, b) == IF a # <<>> THEN a ELSE b

\* ParseIdentifier without the form apiVersion/kind/namespace/name: the first
\* part is always the kind and the last the name
ParseIdentifier_NoApiVersion(capture) ==
    LET resourceParts == Split(capture, "/")
        n == Len(resourceParts)
    IN  [kind |-> OrElse(resourceParts[1], <<"Unknown">>),
         name |-> OrElse(resourceParts[n], <<"unknown">>),
         namespace |-> IF n > 2 THEN resourceParts[2] ELSE Undefined]

\* lines 182-202: kind, name and namespace read from resourceMatch[1]
ParseIdentifier(capture) ==
    LET resourceParts == Split(capture, "/")
        n == Len(resourceParts)
    IN  IF n = 3
        THEN [kind |-> resourceParts[1], namespace |-> resourceParts[2],
              name |-> resourceParts[3]]
        ELSE IF n = 4
        THEN [kind |-> resourceParts[2], namespace |-> resourceParts[3],
              name |-> resourceParts[4]]
        ELSE [kind |-> OrElse(resourceParts[1], <<"Unknown">>),
              name |-> OrElse(resourceParts[n], <<"unknown">>),
              namespace |-> IF n > 2 THEN resourceParts[2] ELSE Undefined]

\* trimmed.split('(')[0].trim()
PathPart(trimmed) == Trim(Split(trimmed, "(")[1])

\* lines 204-219: the resource opened by an identifier line
NewResource(trimmed) ==
    LET id == ParseIdentifier(DyffCapture(trimmed))
    IN  [category  |-> categorizeChange(PathPart(trimmed), id.kind),
         path      |-> PathPart(trimmed),
         kind      |-> id.kind,
         name      |-> id.name,
         namespace |-> IF id.namespace = <<"default">> \/ id.namespace = <<>>
                       THEN Undefined ELSE id.namespace,
         lines     |-> <<>>]

\* lines 256-264: the resource opened by a '+++' or '---' line
UnknownAll ==
    [category |-> <<"Other">>, path |-> <<>>, kind |-> <<"Unknown">>, name |-> <<"all">>,
     namespace |-> Undefined, lines |-> <<>>]

\* lines 228-236: is the next non-empty line after line i an identifier line
RECURSIVE FoundNextResource(_, _)
FoundNextResource(lines, j) ==
    IF j >= Len(lines) THEN FALSE
    ELSE IF Trim(lines[j + 1]) = <<>> THEN FoundNextResource(lines, j + 1)
    ELSE DyffMatches(Trim(lines[j + 1]))

\* currentResource with its lines set, pushed to resources
Pushed(resources, currentResource, currentSection) ==
    Append(resources, [currentResource[1] EXCEPT !.lines = currentSection])

\* lines 165-276: the scan for identifier lines (indices 0-based as in the code)
RECURSIVE DyffLoop(_, _, _, _, _)
DyffLoop(lines, i, currentResource, currentSection, resources) ==
    IF i >= Len(lines)
    THEN IF currentResource # <<>> /\ Len(currentSection) > 0
         THEN Pushed(resources, currentResource, currentSection)
         ELSE resources
    ELSE
      LET line    == lines[i + 1]
          trimmed == Trim(line)
      IN  IF DyffMatches(trimmed)
          THEN DyffLoop(lines, i + 1, <<NewResource(trimmed)>>, <<line>>,
                        IF currentResource # <<>> /\ Len(currentSection) > 0
                        THEN Pushed(resources, currentResource, currentSection)
                        ELSE resources)
          ELSE IF currentResource # <<>>
          THEN IF trimmed = <<>> /\ i < Len(lines) - 1 /\ FoundNextResource(lines, i + 1)
               THEN DyffLoop(lines, i + 1, <<>>, <<>>,
                             Pushed(resources, currentResource, currentSection))
               ELSE DyffLoop(lines, i + 1, currentResource, Append(currentSection, line),
                             resources)
          ELSE IF StartsWith(trimmed, Plus3) \/ StartsWith(trimmed, Minus3)
          THEN DyffLoop(lines, i + 1, <<UnknownAll>>, Append(currentSection, line), resources)
          ELSE DyffLoop(lines, i + 1, currentResource, currentSection, resources)

\* lines 284-301: the fallback's sections, each a sequence of lines
\* (line.trim() === '---' || line.match(/^---\s*$/))
IsSeparator(line) == Trim(line) = Minus3 \/ TrimEnd(line) = Minus3

RECURSIVE SectionLoop(_, _, _)
SectionLoop(lines, currentSection2, sections) ==
    IF lines = <<>>
    THEN IF Len(currentSection2) > 0 THEN Append(sections, currentSection2) ELSE sections
    ELSE IF IsSeparator(Head(lines)) /\ Len(currentSection2) > 0
    THEN SectionLoop(Tail(lines), <<Head(lines)>>, Append(sections, currentSection2))
    ELSE SectionLoop(Tail(lines), Append(currentSection2, Head(lines)), sections)

\* index of the key of /^[+-]?\s*key:\s*(.+)$/i in trimmed, 0 when the
\* pattern does not match
FieldAt(trimmed, key) ==
    LET from  == IF trimmed # <<>> /\ trimmed[1] \in {"+", "-"} THEN 2 ELSE 1
        solid == {k \in from..Len(trimmed) : ~IsSpace(trimmed[k])}
        q     == IF solid = {} THEN 0 ELSE SetMin(solid)
    IN  IF q # 0 /\ q + 1 < Len(trimmed) /\ Lower(trimmed[q]) = key /\ trimmed[q + 1] = ":"
        THEN q ELSE 0

\* .replace(/["']/g, '')
RECURSIVE StripQuotes(_)
StripQuotes(s) ==
    IF s = <<>> THEN <<>>
    ELSE (IF Head(s) \in {"\"", "'"} THEN <<>> ELSE <<Head(s)>>) \o StripQuotes(Tail(s))

\* match[1].trim().replace(/["']/g, '') for trimmed.match(/key:\s*(.+)$/i)
FieldValue(trimmed, key) ==
    StripQuotes(Trim(SubSeq(trimmed, FieldAt(trimmed, key) + 2, Len(trimmed))))

\* a string or null that is truthy
Truthy(v) == v # Undefined /\ v # <<>>

\* lines 313-336: kind, name and namespace of one section
RECURSIVE FieldLoop(_, _, _, _)
FieldLoop(sectionLines, kind, name, namespace) ==
    IF sectionLines = <<>> THEN [kind |-> kind, name |-> name, namespace |-> namespace]
    ELSE
      LET trimmed == Trim(Head(sectionLines))
          kind2 == IF ~Truthy(kind) /\ FieldAt(trimmed, "kind") # 0
                   THEN FieldValue(trimmed, "kind") ELSE kind
          name2 == IF Truthy(kind2) /\ ~Truthy(name) /\ FieldAt(trimmed, "name") # 0
                   THEN FieldValue(trimmed, "name") ELSE name
          namespace2 == IF ~Truthy(namespace) /\ FieldAt(trimmed, "namespace") # 0
                        THEN FieldValue(trimmed, "namespace") ELSE namespace
      IN  FieldLoop(Tail(sectionLines), kind2, name2, namespace2)

\* lines 304-349
RECURSIVE YamlLoop(_, _)
YamlLoop(sections, resources) ==
    IF sections = <<>> THEN resources
    ELSE
      LET section == Head(sections)
          f == FieldLoop(section, Undefined, Undefined, Undefined)
      IN  IF Trim(JoinLines(section)) = <<>> THEN YamlLoop(Tail(sections), resources)
          ELSE IF Truthy(f.kind)
          THEN YamlLoop(Tail(sections),
                 Append(resources,
                   [category  |-> categorizeChange(<<>>, f.kind),
                    path      |-> <<>>,
                    kind      |-> f.kind,
                    name      |-> IF Truthy(f.name) THEN f.name ELSE <<"unknown">>,
                    namespace |-> IF Truthy(f.namespace) THEN f.namespace ELSE Undefined,
                    lines     |-> section]))
          ELSE YamlLoop(Tail(sections), resources)

\* lines 352-361
AllChanges(lines) ==
    [category |-> <<"All Changes">>, path |-> <<>>, kind |-> <<"All Resources">>,
     name |-> <<"all">>, namespace |-> Undefined, lines |-> lines]

parseDiffByResources(diff) ==
    LET dyff == DyffLoop(diff, 0, <<>>, <<>>, <<>>)
        yaml == YamlLoop(SectionLoop(diff, <<>>, <<>>), <<>>)
    IN  IF Len(dyff) > 0 THEN dyff
        ELSE IF Len(yaml) = 0 THEN <<AllChanges(diff)>>
        ELSE yaml

(***************************************************************************)
(* DiffDisplay: the ignoreLabels filter (DiffDisplay.tsx 772-859)          *)
(***************************************************************************)
MetadataDot  == <<"meta", "data", ".">>              \* 'metadata.'
ValueChange  == <<"¬±", " ", "value", " ", "change">> \* '¬± value change'

\* lowerLine.includes('metadata.')
HasMetadata(line) == Includes(ToLowerCase(line), MetadataDot)

\* the look-ahead loop "for (let k = i + 1; k < lines.length && k < i + 5; k++)"
\* run at a blank line in skip mode; its value is the new skipMode.
\* Indices are those of the code (0-based).
RECURSIVE MetaLookAhead(_, _, _)
MetaLookAhead(lines, i, k) ==
    IF ~(k < Len(lines) /\ k < i + 5) THEN TRUE
    ELSE LET aheadLine == Trim(lines[k + 1])
         IN  IF aheadLine = <<>> THEN MetaLookAhead(lines, i, k + 1)
             ELSE IF ThreePartMatches(aheadLine) /\ ~HasMetadata(lines[k + 1])
                  THEN FALSE
                  ELSE TRUE

\* the loop "for (let i = 0; i < lines.length; i++)" with its skipMode flag
RECURSIVE MetaLoop(_, _, _, _)
MetaLoop(lines, i, skipMode, filteredLines) ==
    IF i >= Len(lines) THEN filteredLines
    ELSE
      LET line    == lines[i + 1]
          trimmed == Trim(line)
      IN  IF HasMetadata(line) /\ ThreePartMatches(line)
          THEN MetaLoop(lines, i + 1, TRUE, filteredLines)
          ELSE IF skipMode
          THEN IF ThreePartMatches(trimmed)
               THEN IF ~HasMetadata(line)
                    THEN MetaLoop(lines, i + 1, FALSE, Append(filteredLines, line))
                    ELSE MetaLoop(lines, i + 1, TRUE, filteredLines)
               ELSE IF trimmed = ValueChange
               THEN MetaLoop(lines, i + 1, TRUE, filteredLines)
               ELSE IF StartsWith(trimmed, Minus) \/ StartsWith(trimmed, Plus)
               THEN MetaLoop(lines, i + 1, TRUE, filteredLines)
               ELSE IF trimmed = <<>>
               THEN MetaLoop(lines, i + 1, MetaLookAhead(lines, i, i + 1), filteredLines)
               \* "something unexpected": skipMode = false, the line is pushed
               \* here (line 849) and again by the final push (line 854)
               ELSE MetaLoop(lines, i + 1, FALSE, filteredLines \o <<line, line>>)
          ELSE MetaLoop(lines, i + 1, FALSE, Append(filteredLines, line))

\* filteredDiff: "if (ignoreLabels && filteredDiff)"; the empty string is falsy
IgnoreLabelsFilter(diff, ignoreLabels) ==
    IF ignoreLabels /\ diff # << <<>> >>
    THEN JoinSplit(MetaLoop(diff, 0, FALSE, <<>>))
    ELSE diff

(***************************************************************************)
(* DiffDisplay: the suppressKinds filter (DiffDisplay.tsx 864-885)         *)
(***************************************************************************)
\* the kind the filter reads from an identifier:
\* resourceParts.length >= 2 ? resourceParts[length - 3] || resourceParts[0]
\*                           : resourceParts[0]
SuppressKindOf(capture) ==
    LET resourceParts == Split(capture, "/")
        n == Len(resourceParts)
    IN  IF n >= 2
        THEN IF n - 3 >= 0 /\ resourceParts[n - 3 + 1] # <<>>
             THEN resourceParts[n - 3 + 1]
             ELSE resourceParts[1]
        ELSE resourceParts[1]

\* suppressKinds.some(sk => kind.toLowerCase() === sk.toLowerCase())
KindSuppressed(kind, suppressKinds) ==
    \E sk \in suppressKinds : ToLowerCase(kind) = ToLowerCase(sk)

RECURSIVE KindLoop(_, _, _, _)
KindLoop(lines, suppressKinds, skipResource, filtered) ==
    IF lines = <<>> THEN filtered
    ELSE LET line == Head(lines)
             skip == IF DyffMatches(line)
                     THEN KindSuppressed(SuppressKindOf(DyffCapture(line)), suppressKinds)
                     ELSE skipResource
         IN  KindLoop(Tail(lines), suppressKinds, skip,
                      IF skip THEN filtered ELSE Append(filtered, line))

\* "if (suppressKinds && suppressKinds.length > 0)"
SuppressKindsFilter(text, suppressKinds) ==
    IF suppressKinds # {}
    THEN JoinSplit(KindLoop(text, suppressKinds, FALSE, <<>>))
    ELSE text

(***************************************************************************)
(* DiffDisplay: the suppressRegex filter (DiffDisplay.tsx 887-896)         *)
(* suppressRegex is <<>> (absent or the empty string) or one record: with  *)
(* valid = FALSE new RegExp throws, otherwise the pattern is a literal,    *)
(* which matches the lines that hold it.                                   *)
(***************************************************************************)
RECURSIVE DropMatching(_, _)
DropMatching(lines, literal) ==
    IF lines = <<>> THEN <<>>
    ELSE (IF Includes(Head(lines), literal) THEN <<>> ELSE <<Head(lines)>>)
         \o DropMatching(Tail(lines), literal)

\* SuppressRegexFilter in which a pattern that does not compile suppresses
\* every line
SuppressRegexFilter_InvalidDropsAll(text, suppressRegex) ==
    IF suppressRegex = <<>> THEN text
    ELSE IF ~suppressRegex[1].valid THEN << <<>> >>
    ELSE JoinSplit(DropMatching(text, suppressRegex[1].literal))

SuppressRegexFilter(text, suppressRegex) ==
    IF suppressRegex = <<>> THEN text
    ELSE IF ~suppressRegex[1].valid THEN text       \* catch (e): console.warn
    ELSE JoinSplit(DropMatching(text, suppressRegex[1].literal))

(***************************************************************************)
(* DiffDisplay: secret handling (DiffDisplay.tsx 898-924), on the joined   *)
(* text, in which the lines are separated by "\n"                          *)
(***************************************************************************)
Redacted == <<"[", "REDACTED", "]">>

\* the characters of [A-Za-z0-9+/=]: the words and the three signs
NotBase64 == {" ", "\n", "(", ")", ":", ".", "-", "[", "]", "'", "\"", "¬±", "@", ","}
IsBase64(c) == c \notin NotBase64

\* value.length: the number of characters of a string
RECURSIVE CharLen(_)
CharLen(s) == IF s = <<>> THEN 0 ELSE Len(Head(s)) + CharLen(Tail(s))

\* where ([^\n]+) starts after key and colon at i, i + 1: \s* takes all the
\* white space, and gives back up to a character that is not a newline when
\* the text ends there; 0 when the pattern does not match
CaptureStart(s, i) ==
    LET rest   == (i + 2)..Len(s)
        solid  == {k \in rest : ~IsSpace(s[k])}
        inline == {k \in rest : s[k] # "\n"}
    IN  IF solid # {} THEN SetMin(solid)
        ELSE IF inline # {} THEN CHOOSE k \in inline : \A m \in inline : m <= k
        ELSE 0

\* last character of the line that holds position k
LineEnd(s, k) ==
    LET breaks == {m \in k..Len(s) : s[m] = "\n"}
    IN  IF breaks = {} THEN Len(s) ELSE SetMin(breaks) - 1

\* ShouldRedact with the length test off by one: 20 characters are enough
ShouldRedact_AtLeast20(key, value) ==
    IF key = "data"
    THEN \E k \in 1..Len(value) : value[k] = ":"
    ELSE CharLen(value) >= 20 \/ \A k \in 1..Len(value) : IsBase64(value[k])

\* the test of the replacer function of each replace call
ShouldRedact(key, value) ==
    IF key = "data"
    THEN \E k \in 1..Len(value) : value[k] = ":"
    ELSE CharLen(value) > 20 \/ \A k \in 1..Len(value) : IsBase64(value[k])

\* text.replace(/key:\s*([^\n]+)/gi, ...) for key = 'data' or 'value'
RECURSIVE RedactKey(_, _, _)
RedactKey(s, i, key) ==
    IF i > Len(s) THEN <<>>
    ELSE IF i < Len(s) /\ Lower(s[i]) = key /\ s[i + 1] = ":" /\ CaptureStart(s, i) # 0
    THEN LET from == CaptureStart(s, i)
             to   == LineEnd(s, from)
         IN  (IF ShouldRedact(key, SubSeq(s, from, to))
              THEN <<key, ":", " ">> \o Redacted
              ELSE SubSeq(s, i, to))
             \o RedactKey(s, to + 1, key)
    ELSE <<s[i]>> \o RedactKey(s, i + 1, key)

\* atob, first step: when the length is a multiple of 4, one or two '=' at the
\* end are removed
AtobStripped(encoded) ==
    LET n == Len(encoded)
    IN  IF CharLen(encoded) % 4 # 0 \/ n = 0 \/ encoded[n] # "=" THEN encoded
        ELSE IF n >= 2 /\ encoded[n - 1] = "=" THEN SubSeq(encoded, 1, n - 2)
        ELSE SubSeq(encoded, 1, n - 1)

\* atob throws InvalidCharacterError when what is left has a length of
\* 4k + 1 or still holds a '='
AtobThrows(encoded) ==
    \/ CharLen(AtobStripped(encoded)) % 4 = 1
    \/ \E k \in 1..Len(AtobStripped(encoded)) : AtobStripped(encoded)[k] = "="

\* atob(encoded), Undefined when it throws.  The two base64 words whose text
\* matters are decoded; the bytes any other word decodes to are written as
\* the token "atob" followed by the word.
Base64Decoded(encoded) ==
    IF AtobThrows(encoded) THEN Undefined
    ELSE CASE encoded = <<"QWxhZGRpbjpvcGVuc2VzYW1l">> -> <<"Aladdin", ":", "opensesame">>
           [] encoded = <<"c2VjcmV0">>                 -> <<"secret">>
           [] OTHER                                    -> <<"atob">> \o AtobStripped(encoded)

\* last index of the run of [A-Za-z0-9+/=] that starts at k
RECURSIVE Base64End(_, _)
Base64End(s, k) ==
    IF k < Len(s) /\ IsBase64(s[k + 1]) THEN Base64End(s, k + 1) ELSE k

\* text.replace(/value:\s*([A-Za-z0-9+/=]+)/g, ...): case-sensitive
RECURSIVE DecodeValues(_, _)
DecodeValues(s, i) ==
    IF i > Len(s) THEN <<>>
    ELSE LET solid == {k \in (i + 2)..Len(s) : ~IsSpace(s[k])}
             from  == IF solid = {} THEN 0 ELSE SetMin(solid)
         IN  IF i < Len(s) /\ s[i] = "value" /\ s[i + 1] = ":"
                /\ from # 0 /\ IsBase64(s[from])
             THEN LET to      == Base64End(s, from)
                      decoded == Base64Decoded(SubSeq(s, from, to))
                  IN  (IF decoded # Undefined
                       THEN <<"value", ":", " ">> \o decoded
                            \o <<" ", "(", "decoded", " ", "from", " ", "base64", ")">>
                       ELSE SubSeq(s, i, to))
                      \o DecodeValues(s, to + 1)
             ELSE <<s[i]>> \o DecodeValues(s, i + 1)

SecretHandling(text, secretHandling) ==
    IF secretHandling = "suppress"
    THEN Split(RedactKey(RedactKey(JoinLines(text), 1, "data"), 1, "value"), "\n")
    ELSE IF secretHandling = "decode"
    THEN Split(DecodeValues(JoinLines(text), 1), "\n")
    ELSE text

(***************************************************************************)
(* groupResourcesByCategory (DiffDisplay.tsx 366-421): the categories in   *)
(* display order                                                           *)
(***************************************************************************)
categoryOrder ==
    <<"Container & Image", "Scaling", "Resources", "Service Configuration",
      "Environment & Config", "Storage & Volumes", "Selectors & Matching",
      "Configuration Data", "Spec Changes", "Workloads", "Services", "Networking",
      "Configuration", "Storage", "RBAC", "Policy", "Autoscaling", "Custom Resources",
      "Metadata & Tags", "Status", "Other">>

\* the categories that are not in categoryOrder, in the order of localeCompare
UnlistedOrder ==
    <<"All Changes", "APIService", "CertificateSigningRequest", "ComponentStatus",
      "CSIDriver", "CSINode", "CSIStorageCapacity", "CustomResourceDefinition", "Event",
      "FlowSchema", "Lease", "MutatingWebhookConfiguration", "Namespace", "Node",
      "PodTemplate", "PriorityLevelConfiguration", "RuntimeClass",
      "ValidatingWebhookConfiguration">>

IndexOf(seq, x) ==
    IF \E i \in 1..Len(seq) : seq[i] = x
    THEN SetMin({i \in 1..Len(seq) : seq[i] = x}) ELSE 0

\* position of a category under the comparator of the sort (lines 405-413)
CategoryRank(category) ==
    IF IndexOf(categoryOrder, category[1]) # 0 THEN IndexOf(categoryOrder, category[1])
    ELSE Len(categoryOrder) + IndexOf(UnlistedOrder, category[1])

RECURSIVE SortedByRank(_)
SortedByRank(S) ==
    IF S = {} THEN <<>>
    ELSE LET first == CHOOSE c \in S : \A d \in S : CategoryRank(c) <= CategoryRank(d)
         IN  <<first>> \o SortedByRank(S \ {first})

\* Object.keys(groupResourcesByCategory(resources))
groupResourcesByCategory(resources) ==
    SortedByRank({resources[i].category : i \in 1..Len(resources)})

(***************************************************************************)
(* calculateStatistics (DiffDisplay.tsx 424-582)                           *)
(***************************************************************************)
\* `${resource.kind}/${resource.name}${resource.namespace ? `/${resource.namespace}` : ''}`
ResourceKey(resource) ==
    resource.kind \o <<"/">> \o resource.name
      \o (IF Truthy(resource.namespace) THEN <<"/">> \o resource.namespace ELSE <<>>)

\* lines 478-486: how a line is counted
IsAddedLine(trimmed)   == StartsWith(trimmed, Plus) /\ ~StartsWith(trimmed, Plus3)
IsRemovedLine(trimmed) == StartsWith(trimmed, Minus) /\ ~StartsWith(trimmed, Minus3)
IsUnchangedLine(trimmed) ==
    /\ ~IsAddedLine(trimmed)
    /\ ~IsRemovedLine(trimmed)
    /\ trimmed # <<>> /\ ~StartsWith(trimmed, Plus3) /\ ~StartsWith(trimmed, Minus3)

SpecReplicas   == <<".", "spec", ".", "replicas">>
SpecContainers == <<".", "spec", ".", "template", ".", "spec", ".", "containers">>
ImageColon     == <<"image", ":">>
SpecResources  == <<".", "spec", ".", "resources">>
RequiredColon       == <<"required", ":">>
RequiredFieldsColon == <<"requiredFields", ":">>

\* lines 489-512: the critical changes one line pushes, in order
CriticalOfLine(resource, trimmed) ==
    (IF Includes(trimmed, SpecReplicas)
     THEN <<[resource |-> ResourceKey(resource), kind |-> resource.kind,
             field |-> "replicas"]>> ELSE <<>>)
    \o (IF Includes(trimmed, SpecContainers) /\ Includes(trimmed, ImageColon)
        THEN <<[resource |-> ResourceKey(resource), kind |-> resource.kind,
                field |-> "image"]>> ELSE <<>>)
    \o (IF Includes(trimmed, SpecResources)
        THEN <<[resource |-> ResourceKey(resource), kind |-> resource.kind,
                field |-> "resources"]>> ELSE <<>>)

\* lines 515-526: the breaking change one line pushes
BreakingOfLine(resource, trimmed) ==
    IF /\ StartsWith(trimmed, Minus) /\ ~StartsWith(trimmed, Minus3)
       /\ (Includes(trimmed, RequiredColon) \/ Includes(trimmed, RequiredFieldsColon))
    THEN <<[resource |-> ResourceKey(resource), kind |-> resource.kind,
            field |-> resource.path, severity |-> "high"]>>
    ELSE <<>>

\* lines 475-527: the scan of one resource's lines; t holds lineStats, the
\* two lists and the flags hasAdditions and hasRemovals
RECURSIVE LineLoop(_, _, _)
LineLoop(resource, lines, t) ==
    IF lines = <<>> THEN t
    ELSE LET trimmed == Trim(Head(lines))
         IN  LineLoop(resource, Tail(lines),
               [added     |-> t.added + (IF IsAddedLine(trimmed) THEN 1 ELSE 0),
                removed   |-> t.removed + (IF IsRemovedLine(trimmed) THEN 1 ELSE 0),
                unchanged |-> t.unchanged + (IF IsUnchangedLine(trimmed) THEN 1 ELSE 0),
                hasAdditions |-> t.hasAdditions \/ IsAddedLine(trimmed),
                hasRemovals  |-> t.hasRemovals \/ IsRemovedLine(trimmed),
                criticalChanges |-> t.criticalChanges \o CriticalOfLine(resource, trimmed),
                breakingChanges |-> t.breakingChanges \o BreakingOfLine(resource, trimmed)])

\* lines 530-542: "added", "removed", "modified" or "unchanged"
ChangeType(hasAdditions, hasRemovals) ==
    IF hasAdditions /\ hasRemovals THEN "modified"
    ELSE IF hasAdditions /\ ~hasRemovals THEN "added"
    ELSE IF hasRemovals /\ ~hasAdditions THEN "removed"
    ELSE "unchanged"

\* kindMap after one more resource of the kind with the change type
BumpKind(kindMap, kind, type) ==
    LET withKind == IF \E k \in 1..Len(kindMap) : kindMap[k].kind = kind THEN kindMap
                    ELSE Append(kindMap, [kind |-> kind, count |-> 0, added |-> 0,
                                          removed |-> 0, modified |-> 0])
    IN  [k \in 1..Len(withKind) |->
           IF withKind[k].kind # kind THEN withKind[k]
           ELSE [kind     |-> kind,
                 count    |-> withKind[k].count + 1,
                 added    |-> withKind[k].added + (IF type = "added" THEN 1 ELSE 0),
                 removed  |-> withKind[k].removed + (IF type = "removed" THEN 1 ELSE 0),
                 modified |-> withKind[k].modified + (IF type = "modified" THEN 1 ELSE 0)]]

\* categoryMap after adding the resource key to the set of the category
BumpCategory(categoryMap, category, key) ==
    LET withCat == IF \E k \in 1..Len(categoryMap) : categoryMap[k].category = category
                   THEN categoryMap
                   ELSE Append(categoryMap, [category |-> category, resources |-> <<>>])
    IN  [k \in 1..Len(withCat) |->
           IF withCat[k].category # category \/ IndexOf(withCat[k].resources, key) # 0
           THEN withCat[k]
           ELSE [category |-> category, resources |-> Append(withCat[k].resources, key)]]

\* lines 449-543: the loop over the resources
RECURSIVE ResourceLoop(_, _)
ResourceLoop(resources, acc) ==
    IF resources = <<>> THEN acc
    ELSE
      LET resource == Head(resources)
          key  == ResourceKey(resource)
          t    == LineLoop(resource, resource.lines,
                    [added |-> acc.added, removed |-> acc.removed,
                     unchanged |-> acc.unchanged,
                     hasAdditions |-> FALSE, hasRemovals |-> FALSE,
                     criticalChanges |-> acc.criticalChanges,
                     breakingChanges |-> acc.breakingChanges])
          type == ChangeType(t.hasAdditions, t.hasRemovals)
      IN  ResourceLoop(Tail(resources),
            [resourceSet |-> acc.resourceSet \cup {key},
             totalResources |-> acc.totalResources + (IF key \in acc.resourceSet THEN 0 ELSE 1),
             resourcesAdded     |-> acc.resourcesAdded + (IF type = "added" THEN 1 ELSE 0),
             resourcesRemoved   |-> acc.resourcesRemoved + (IF type = "removed" THEN 1 ELSE 0),
             resourcesModified  |-> acc.resourcesModified + (IF type = "modified" THEN 1 ELSE 0),
             resourcesUnchanged |-> acc.resourcesUnchanged + (IF type = "unchanged" THEN 1 ELSE 0),
             kindMap     |-> BumpKind(acc.kindMap, resource.kind, type),
             categoryMap |-> BumpCategory(acc.categoryMap, resource.category, key),
             added |-> t.added, removed |-> t.removed, unchanged |-> t.unchanged,
             criticalChanges |-> t.criticalChanges,
             breakingChanges |-> t.breakingChanges])

\* Array.prototype.sort((a, b) => b.count - a.count): stable, largest first
RECURSIVE SortByCount(_)
SortByCount(entries) ==
    IF entries = <<>> THEN <<>>
    ELSE LET top == SetMin({i \in 1..Len(entries) :
                               \A j \in 1..Len(entries) : entries[j].count <= entries[i].count})
         IN  <<entries[top]>>
             \o SortByCount(SubSeq(entries, 1, top - 1) \o SubSeq(entries, top + 1, Len(entries)))

\* ImpactLevel with the threshold of critical changes off by one
ImpactLevel_AtLeast5(resourcesRemoved, resourcesModified, breakingLength, criticalLength) ==
    IF resourcesRemoved > 0 \/ breakingLength > 0 \/ criticalLength >= 5 THEN "high"
    ELSE IF resourcesModified > 0 \/ criticalLength > 0 THEN "medium"
    ELSE "low"

\* lines 562-567
ImpactLevel(resourcesRemoved, resourcesModified, breakingLength, criticalLength) ==
    IF resourcesRemoved > 0 \/ breakingLength > 0 \/ criticalLength > 5 THEN "high"
    ELSE IF resourcesModified > 0 \/ criticalLength > 0 THEN "medium"
    ELSE "low"

\* slice(-10) in the place of slice(0, 10): the last ten
Slice10_Last(list) == SubSeq(list, Max(1, Len(list) - 9), Len(list))

\* Array.prototype.slice(0, 10)
Slice10(list) == SubSeq(list, 1, Min(Len(list), 10))

calculateStatistics(resources, diff) ==
    LET acc == ResourceLoop(resources,
                 [resourceSet |-> {}, totalResources |-> 0, resourcesAdded |-> 0,
                  resourcesRemoved |-> 0, resourcesModified |-> 0, resourcesUnchanged |-> 0,
                  kindMap |-> <<>>, categoryMap |-> <<>>,
                  added |-> 0, removed |-> 0, unchanged |-> 0,
                  criticalChanges |-> <<>>, breakingChanges |-> <<>>])
    IN  [summary |-> [totalResources     |-> acc.totalResources,
                      resourcesAdded     |-> acc.resourcesAdded,
                      resourcesRemoved   |-> acc.resourcesRemoved,
                      resourcesModified  |-> acc.resourcesModified,
                      resourcesUnchanged |-> acc.resourcesUnchanged,
                      totalChanges       |-> Len(resources)],
         byKind |-> SortByCount(acc.kindMap),
         byCategory |-> SortByCount(
             [k \in 1..Len(acc.categoryMap) |->
                [category  |-> acc.categoryMap[k].category,
                 count     |-> Len(acc.categoryMap[k].resources),
                 resources |-> acc.categoryMap[k].resources]]),
         lines |-> [added |-> acc.added, removed |-> acc.removed,
                    unchanged |-> acc.unchanged, total |-> Len(diff)],
         impact |-> [level |-> ImpactLevel(acc.resourcesRemoved, acc.resourcesModified,
                                           Len(acc.breakingChanges), Len(acc.criticalChanges)),
                     criticalChanges |-> Slice10(acc.criticalChanges),
                     breakingChanges |-> Slice10(acc.breakingChanges)]]

(***************************************************************************)
(* DiffDisplay (DiffDisplay.tsx 754-942): what one render computes from    *)
(* its props.  props.diff is result.diff, <<>> when it is absent.          *)
(***************************************************************************)
DefaultContextLines == 3

\* TrimResources in which a second render trims the lines the first render
\* left, not the lines it has just parsed
TrimResources_Carried(resources, contextLines) ==
    LET given == IF pc = "rendered" THEN ret[1].resources ELSE resources
    IN  IF contextLines >= 0
        THEN [k \in 1..Len(given) |->
                [given[k] EXCEPT !.lines = applyContextLines(@, contextLines)]]
        ELSE given

\* lines 929-934: resource.lines = applyContextLines(resource.lines, contextLines)
TrimResources(resources, contextLines) ==
    IF contextLines >= 0
    THEN [k \in 1..Len(resources) |->
            [resources[k] EXCEPT !.lines = applyContextLines(@, contextLines)]]
    ELSE resources

\* lines 1142-1144 and 1597-1628: the message the render shows; no message
\* (the empty text) when the groups are listed by category
DisplayMessage(hasDiff, categories) ==
    IF hasDiff
    THEN IF Len(categories) > 0 THEN <<>> ELSE <<"Differences detected">>
    ELSE <<"No differences found between versions">>

\* HasDiff that does not trim: white space counts as a difference
HasDiff_NoTrim(diff) == diff # <<>> /\ JoinLines(diff) # <<>>

\* line 762: result.diff && result.diff.trim().length > 0
HasDiff(diff) == diff # <<>> /\ Trim(JoinLines(diff)) # <<>>

DiffDisplay(props) ==
    LET hasDiff       == HasDiff(props.diff)
        rawDiff       == IF props.diff = <<>> THEN << <<>> >> ELSE props.diff
        filteredDiff  == IgnoreLabelsFilter(rawDiff, props.ignoreLabels)
        processedDiff ==
            SecretHandling(
              SuppressRegexFilter(
                SuppressKindsFilter(filteredDiff, props.suppressKinds),
                props.suppressRegex),
              props.secretHandling)
        resources == TrimResources(
                       IF hasDiff THEN parseDiffByResources(processedDiff) ELSE <<>>,
                       props.contextLines)
    IN  [hasDiff       |-> hasDiff,
         processedDiff |-> processedDiff,
         resources     |-> resources,
         categories    |-> groupResourcesByCategory(resources),
         statistics    |-> IF hasDiff THEN <<calculateStatistics(resources, processedDiff)>>
                           ELSE <<>>,
         message       |-> DisplayMessage(hasDiff, groupResourcesByCategory(resources))]

(***************************************************************************)
(* Specification SpecCtx: applyContextLines on every bounded group         *)
(***************************************************************************)
MaxCtxLen  == 5      \* longest group given to applyContextLines
MaxContext == 2      \* largest contextLines given to applyContextLines

CtxAdded   == <<"+", " ", "new">>
CtxRemoved == <<" ", "-", " ", "old">>
CtxContext == <<" ", " ", "ctx">>

CtxVocabulary == {CtxAdded, CtxRemoved, CtxContext}

RECURSIVE SeqsUpTo(_, _)
SeqsUpTo(S, n) ==
    IF n = 0 THEN {<<>>}
    ELSE LET shorter == SeqsUpTo(S, n - 1)
         IN  shorter \cup {Append(s, x) : s \in {t \in shorter : Len(t) = n - 1}, x \in S}

InitCtx ==
    /\ pc = "applyContextLines"
    /\ args \in [lines : SeqsUpTo(CtxVocabulary, MaxCtxLen), contextLines : -1..MaxContext]
    /\ ret = None

CallApplyContextLines ==
    /\ pc = "applyContextLines"
    /\ ret' = applyContextLines(args.lines, args.contextLines)
    /\ pc' = "returned"
    /\ UNCHANGED args

NextCtx == CallApplyContextLines

SpecCtx == InitCtx /\ [][NextCtx]_vars

(***************************************************************************)
(* Specification SpecDiff: one render of DiffDisplay for every bounded raw *)
(* diff and every setting of the options                                   *)
(***************************************************************************)
MaxDiffLen == 3      \* longest generated raw diff, in lines

\* 'metadata.labels.foo  (v1/ServiceAccount/default/svc-account)'
MetaHeader ==
    <<"meta", "data", ".", "labels", ".", "foo", " ", " ",
      "(", "v1", "/", "ServiceAccount", "/", "default", "/", "svc", "-", "account", ")">>
\* 'spec.replicas  (v1/Deployment/ns1/my-app)'
SpecHeader ==
    <<"spec", ".", "replicas", " ", " ",
      "(", "v1", "/", "Deployment", "/", "ns1", "/", "my", "-", "app", ")">>
\* 'data.password  (Secret/ns1/db/v1/core)': an identifier of five parts
SecretHeader ==
    <<"data", ".", "password", " ", " ",
      "(", "Secret", "/", "ns1", "/", "db", "/", "v1", "/", "core", ")">>
OldLine   == <<"-", " ", "old">>
NewLine   == <<"+", " ", "new">>
BlankLine == <<>>
BodyLine  == <<" ", " ", "ctx">>

DiffVocabulary == {MetaHeader, SpecHeader, SecretHeader, OldLine, NewLine, BlankLine, BodyLine}

\* the scenario of the specification's testable properties 6 and 7
ScenarioDiff ==
    <<MetaHeader, OldLine, NewLine, BlankLine, SpecHeader, <<"-", " ", "1">>, <<"+", " ", "3">>>>

\* the fallback scenario of testable property 9
FallbackDiff ==
    << <<"kind", ":", " ", "Service">>, <<"name", ":", " ", "my", "-", "svc">>, Minus3,
       <<"kind", ":", " ", "Deployment">>, <<"name", ":", " ", "my", "-", "app">> >>

\* the same resources without separator lines
YamlDiff ==
    << <<"kind", ":", " ", "Secret">>, <<"name", ":", " ", "db">>,
       <<"+", " ", " ", "password", ":", " ", "new">> >>

DiffInputs ==
    SeqsUpTo(DiffVocabulary, MaxDiffLen) \cup {ScenarioDiff, FallbackDiff, YamlDiff}

PropsInputs ==
    [diff           : DiffInputs,
     ignoreLabels   : BOOLEAN,
     secretHandling : {"suppress"},
     contextLines   : {0, DefaultContextLines},
     suppressKinds  : {{}, {<<"secret">>}},
     suppressRegex  : {<<>>}]

InitDiff ==
    /\ pc = "DiffDisplay"
    /\ args \in PropsInputs
    /\ ret = None

RenderDiffDisplay ==
    /\ pc = "DiffDisplay"
    /\ ret' = DiffDisplay(args)
    /\ pc' = "rendered"
    /\ UNCHANGED args

NextDiff == RenderDiffDisplay

SpecDiff == InitDiff /\ [][NextDiff]_vars

(***************************************************************************)
(* Specification SpecStats: calculateStatistics on every bounded           *)
(* collection of groups                                                    *)
(***************************************************************************)
MaxGroups == 2       \* most groups given to calculateStatistics
MaxRepeat == 6       \* most repetitions of a line within one group

\* '  app.spec.replicas: 3'
ReplicasLine == <<" ", " ", "app", ".", "spec", ".", "replicas", ":", " ", "3">>
\* '+ app.spec.template.spec.containers.web.image: nginx'
ImageLine ==
    <<"+", " ", "app", ".", "spec", ".", "template", ".", "spec", ".", "containers", ".",
      "web", ".", "image", ":", " ", "nginx">>
\* '+ app.spec.resources was app.spec.replicas'
ResourcesLine ==
    <<"+", " ", "app", ".", "spec", ".", "resources", " ", "was", " ",
      "app", ".", "spec", ".", "replicas">>
\* '- required: app.spec.replicas'
RequiredLine == <<"-", " ", "required", ":", " ", "app", ".", "spec", ".", "replicas">>
\* '--- required: true'
HeaderLine == <<"-", "-", "-", " ", "required", ":", " ", "true">>

StatVocabulary == {ReplicasLine, ImageLine, ResourcesLine, RequiredLine, HeaderLine, OldLine}

RECURSIVE Repeat(_, _)
Repeat(line, n) == IF n = 0 THEN <<>> ELSE <<line>> \o Repeat(line, n - 1)

\* the lines a generated group may hold
StatLineLists ==
    {Repeat(l, n) : l \in StatVocabulary, n \in {1, MaxRepeat}}
      \cup {<<>>, <<NewLine, OldLine>>, <<NewLine>>,
            <<ResourcesLine, ReplicasLine, ImageLine>>}

\* the resource that stands at position k of a generated collection
StatKinds == <<"Deployment", "Service", "ConfigMap", "Widget", "Namespace">>

StatResource(k, lines) ==
    LET kind == <<StatKinds[((k - 1) % Len(StatKinds)) + 1]>>
    IN  [category  |-> categorizeChange(<<"spec", ".", "replicas">>, kind),
         path      |-> <<"spec", ".", "replicas">>,
         kind      |-> kind,
         name      |-> <<"app">>,
         namespace |-> IF k % 2 = 0 THEN <<"ns1">> ELSE Undefined,
         lines     |-> lines]

StatInputs ==
    {[k \in 1..Len(ls) |-> StatResource(k, ls[k])] : ls \in SeqsUpTo(StatLineLists, MaxGroups)}

InitStats ==
    /\ pc = "calculateStatistics"
    /\ args \in [resources : StatInputs, diff : {<< <<>> >>}]
    /\ ret = None

CallCalculateStatistics ==
    /\ pc = "calculateStatistics"
    /\ ret' = calculateStatistics(args.resources, args.diff)
    /\ pc' = "returned"
    /\ UNCHANGED args

NextStats == CallCalculateStatistics

SpecStats == InitStats /\ [][NextStats]_vars

(***************************************************************************)
(* C3                                                                      *)
(***************************************************************************)
\* the result with the inserted "..." lines removed
RECURSIVE WithoutSeparators(_)
WithoutSeparators(ls) ==
    IF ls = <<>> THEN <<>>
    ELSE (IF Head(ls) = Ellipsis THEN <<>> ELSE <<Head(ls)>>) \o WithoutSeparators(Tail(ls))

\* indices (1-based) of the lines within distance c of a changed line
NearChange(lines, c) ==
    {j \in 1..Len(lines) :
        \E i \in 1..Len(lines) : IsChange(lines[i]) /\ j - i <= c /\ i - j <= c}

RECURSIVE PickIndices(_, _, _)
PickIndices(lines, S, j) ==
    IF j > Len(lines) THEN <<>>
    ELSE (IF j \in S THEN <<lines[j]>> ELSE <<>>) \o PickIndices(lines, S, j + 1)

\* C3: for a group with a changed line and contextLines c >= 0, the result of
\* applyContextLines without its "..." separators is exactly the lines within
\* distance c of a changed line, each once, in the original order.
C3_ContextExactlyOnce ==
    (pc = "returned" /\ args.contextLines >= 0
        /\ \E i \in 1..Len(args.lines) : IsChange(args.lines[i]))
    => WithoutSeparators(ret)
         = PickIndices(args.lines, NearChange(args.lines, args.contextLines), 1)


(***************************************************************************)
(* C1                                                                      *)
(***************************************************************************)
\* the header line of a metadata block: 'metadata.' in any letter case and a
\* parenthesized identifier of at least three parts
IsMetadataHeader(line) == HasMetadata(line) /\ ThreePartMatches(line)

\* is line i of the raw diff the header of a metadata block or a line between
\* such a header and the next identifier line
InMetadataBlock(diff, i) ==
    \E h \in 1..i :
        /\ IsMetadataHeader(diff[h])
        /\ \A k \in (h + 1)..i : ~DyffMatches(diff[k])

\* the lines of the raw diff that stand outside every metadata block
OutsideMetadata(diff) == {diff[i] : i \in {k \in 1..Len(diff) : ~InMetadataBlock(diff, k)}}

\* C1: with ignoreLabels, no line of a metadata block (the header or a line up
\* to the next identifier line) is a line of a surviving group, and none is
\* counted in Statistics: every line of a group and every counted line is a
\* line the raw diff holds outside the metadata blocks (when everything was
\* removed, the empty text that is left counts as one empty line).
C1_MetadataBlocksRemoved ==
    (pc = "rendered" /\ args.ignoreLabels) =>
      /\ \A g \in 1..Len(ret.resources) :
            \A l \in 1..Len(ret.resources[g].lines) :
                \/ ret.resources[g].lines[l] = Ellipsis
                \/ ret.resources[g].lines[l] \in OutsideMetadata(args.diff)
                \/ ret.processedDiff = << <<>> >>      \* the one line of the empty text
      /\ ret.statistics # <<>> =>
            /\ ret.statistics[1].lines.added > 0 =>
                  \E o \in OutsideMetadata(args.diff) : IsAddedLine(Trim(o))
            /\ ret.statistics[1].lines.removed > 0 =>
                  \E o \in OutsideMetadata(args.diff) : IsRemovedLine(Trim(o))

(***************************************************************************)
(* C2                                                                      *)
(***************************************************************************)
\* C2: after the whole pipeline no surviving group has a kind that equals,
\* ignoring letter case, a member of suppressKinds.
C2_NoSuppressedKind ==
    pc = "rendered" =>
      \A g \in 1..Len(ret.resources) :
          \A sk \in args.suppressKinds :
              ToLowerCase(ret.resources[g].kind) # ToLowerCase(sk)

(***************************************************************************)
(* C4                                                                      *)
(***************************************************************************)
\* the number of lines of a text that satisfy a test given as a set of lines
CountLines(text, Wanted) == Cardinality({i \in 1..Len(text) : text[i] \in Wanted})

AddedLines(text)   == {text[i] : i \in {k \in 1..Len(text) : IsAddedLine(Trim(text[k]))}}
RemovedLines(text) == {text[i] : i \in {k \in 1..Len(text) : IsRemovedLine(Trim(text[k]))}}
OtherLines(text)   == {text[i] : i \in {k \in 1..Len(text) : IsUnchangedLine(Trim(text[k]))}}

\* C4: lines.added, lines.removed and lines.unchanged are the numbers of
\* added, removed and other non-empty non-header lines of the filtered text.
C4_LineCountsOfFilteredText ==
    (pc = "rendered" /\ ret.statistics # <<>>) =>
      /\ ret.statistics[1].lines.added
           = CountLines(ret.processedDiff, AddedLines(ret.processedDiff))
      /\ ret.statistics[1].lines.removed
           = CountLines(ret.processedDiff, RemovedLines(ret.processedDiff))
      /\ ret.statistics[1].lines.unchanged
           = CountLines(ret.processedDiff, OtherLines(ret.processedDiff))

(***************************************************************************)
(* C5                                                                      *)
(***************************************************************************)
\* kind, name and category of every group, in order
Headings(resources) ==
    [g \in 1..Len(resources) |->
       <<resources[g].kind, resources[g].name, resources[g].category>>]

\* C5: the text 'kind: Service / name: my-svc / --- / kind: Deployment /
\* name: my-app' yields one group per section, in order, with the section's
\* kind and name and the category of the kind: Service/my-svc and
\* Deployment/my-app.
C5_FallbackSections ==
    (pc = "rendered" /\ args.diff = FallbackDiff) =>
      Headings(ret.resources)
        = << <<<<"Service">>, <<"my", "-", "svc">>, <<"Services">>>>,
             <<<<"Deployment">>, <<"my", "-", "app">>, <<"Workloads">>>> >>

(***************************************************************************)
(* C6, C7, C8: the scenario                                                *)
(***************************************************************************)
ScenarioRendered(ignoreLabels) ==
    pc = "rendered" /\ args.diff = ScenarioDiff /\ args.ignoreLabels = ignoreLabels

\* C6 as stated: the ServiceAccount group has category "Metadata & Tags" and
\* the Deployment group has category "Scaling".
C6_PathCategories ==
    ScenarioRendered(FALSE) =>
      Headings(ret.resources)
        = << <<<<"ServiceAccount">>, <<"svc", "-", "account">>, <<"Metadata & Tags">>>>,
             <<<<"Deployment">>, <<"my", "-", "app">>, <<"Scaling">>>> >>

\* C6 amended: the kind decides before the path does: the ServiceAccount
\* group has category "RBAC" and the Deployment group has category
\* "Workloads".
C6_KindCategories ==
    ScenarioRendered(FALSE) =>
      Headings(ret.resources)
        = << <<<<"ServiceAccount">>, <<"svc", "-", "account">>, <<"RBAC">>>>,
             <<<<"Deployment">>, <<"my", "-", "app">>, <<"Workloads">>>> >>

C6_Witness ==
    /\ ScenarioRendered(FALSE)
    /\ \E g \in 1..Len(ret.resources) :
          ret.resources[g].kind = <<"ServiceAccount">>
            /\ ret.resources[g].path = <<"meta", "data", ".", "labels", ".", "foo">>
    /\ \E g \in 1..Len(ret.resources) :
          ret.resources[g].kind = <<"Deployment">>
            /\ ret.resources[g].path = <<"spec", ".", "replicas">>

\* C7: in the scenario, impact.criticalChanges holds exactly one entry, with
\* field "replicas", for the Deployment resource.
C7_OneReplicasChange ==
    ScenarioRendered(FALSE) =>
      /\ Len(ret.statistics[1].impact.criticalChanges) = 1
      /\ ret.statistics[1].impact.criticalChanges[1].field = "replicas"
      /\ ret.statistics[1].impact.criticalChanges[1].kind = <<"Deployment">>

\* kind, name and namespace of every group, in order
Identities(resources) ==
    [g \in 1..Len(resources) |->
       <<resources[g].kind, resources[g].name, resources[g].namespace>>]

\* C8: the scenario yields the groups ServiceAccount/svc-account (namespace
\* absent) and Deployment/my-app (namespace ns1) and totalResources = 2
\* without ignoreLabels, and the Deployment group alone and totalResources = 1
\* with ignoreLabels.
C8_ScenarioGroups ==
    /\ ScenarioRendered(FALSE) =>
          /\ Identities(ret.resources)
               = << <<<<"ServiceAccount">>, <<"svc", "-", "account">>, Undefined>>,
                    <<<<"Deployment">>, <<"my", "-", "app">>, <<"ns1">>>> >>
          /\ ret.statistics[1].summary.totalResources = 2
    /\ ScenarioRendered(TRUE) =>
          /\ Identities(ret.resources)
               = << <<<<"Deployment">>, <<"my", "-", "app">>, <<"ns1">>>> >>
          /\ ret.statistics[1].summary.totalResources = 1

C8_Witness ==
    /\ ScenarioRendered(TRUE)
    /\ Len(ret.resources) = 1
    /\ ret.processedDiff[1] = SpecHeader

(***************************************************************************)
(* The counts and lists the claims about Statistics speak of, computed     *)
(* from the lines directly                                                 *)
(***************************************************************************)
\* the number of critical changes a line stands for
CriticalHits(line) ==
    (IF Includes(Trim(line), <<".", "spec", ".", "replicas">>) THEN 1 ELSE 0)
    + (IF Includes(Trim(line), <<".", "spec", ".", "template", ".", "spec", ".", "containers">>)
          /\ Includes(Trim(line), <<"image", ":">>) THEN 1 ELSE 0)
    + (IF Includes(Trim(line), <<".", "spec", ".", "resources">>) THEN 1 ELSE 0)

\* is the line the removal of a required field
BreakingHit(line) ==
    /\ Trim(line) # <<>> /\ Trim(line)[1] = "-" /\ SubSeq(Trim(line), 1, 3) # <<"-", "-", "-">>
    /\ \E k \in 1..(Len(Trim(line)) - 1) :
          Trim(line)[k] \in {"required", "requiredFields"} /\ Trim(line)[k + 1] = ":"

RECURSIVE SumOver(_, _)
SumOver(f, S) ==
    IF S = {} THEN 0
    ELSE LET x == CHOOSE y \in S : TRUE IN f[x] + SumOver(f, S \ {x})

\* all the (group, line) positions of a collection
LinePositions(resources) ==
    UNION {{<<g, l>> : l \in 1..Len(resources[g].lines)} : g \in 1..Len(resources)}

CriticalCount(resources) ==
    SumOver([p \in LinePositions(resources) |->
               CriticalHits(resources[p[1]].lines[p[2]])], LinePositions(resources))

BreakingCount(resources) ==
    Cardinality({p \in LinePositions(resources) :
                   BreakingHit(resources[p[1]].lines[p[2]])})

(***************************************************************************)
(* C9                                                                      *)
(***************************************************************************)
\* C9: impact.level is "high" exactly when a resource was removed, a breaking
\* change was detected or more than 5 critical changes were detected (before
\* the truncation to 10); otherwise "medium" exactly when a resource was
\* modified or a critical change was detected; otherwise "low".
C9_ImpactLevel ==
    pc = "returned" =>
      LET high   == \/ ret.summary.resourcesRemoved > 0
                    \/ BreakingCount(args.resources) > 0
                    \/ CriticalCount(args.resources) > 5
          medium == \/ ret.summary.resourcesModified > 0
                    \/ CriticalCount(args.resources) > 0
      IN  /\ (ret.impact.level = "high") <=> high
          /\ (ret.impact.level = "medium") <=> (~high /\ medium)
          /\ (ret.impact.level = "low") <=> (~high /\ ~medium)

\* more than 10 critical changes, nothing removed, nothing breaking: high
C9_Witness ==
    /\ pc = "returned"
    /\ CriticalCount(args.resources) > 10
    /\ BreakingCount(args.resources) = 0
    /\ ret.summary.resourcesRemoved = 0
    /\ ret.impact.level = "high"

(***************************************************************************)
(* C10                                                                     *)
(***************************************************************************)
\* the fields of the critical changes of a line, in the order of the checks
CriticalFields(line) ==
    (IF Includes(Trim(line), <<".", "spec", ".", "replicas">>) THEN <<"replicas">> ELSE <<>>)
    \o (IF Includes(Trim(line), <<".", "spec", ".", "template", ".", "spec", ".", "containers">>)
           /\ Includes(Trim(line), <<"image", ":">>) THEN <<"image">> ELSE <<>>)
    \o (IF Includes(Trim(line), <<".", "spec", ".", "resources">>) THEN <<"resources">> ELSE <<>>)

\* <<group, field>> of every critical change, walking the groups g.. in order
\* and the lines l.. of each group in order
RECURSIVE CriticalWalk(_, _, _)
CriticalWalk(resources, g, l) ==
    IF g > Len(resources) THEN <<>>
    ELSE IF l > Len(resources[g].lines) THEN CriticalWalk(resources, g + 1, 1)
    ELSE [k \in 1..Len(CriticalFields(resources[g].lines[l])) |->
            <<g, CriticalFields(resources[g].lines[l])[k]>>]
         \o CriticalWalk(resources, g, l + 1)

\* the group of every breaking change, in the same walk
RECURSIVE BreakingWalk(_, _, _)
BreakingWalk(resources, g, l) ==
    IF g > Len(resources) THEN <<>>
    ELSE IF l > Len(resources[g].lines) THEN BreakingWalk(resources, g + 1, 1)
    ELSE (IF BreakingHit(resources[g].lines[l]) THEN <<g>> ELSE <<>>)
         \o BreakingWalk(resources, g, l + 1)

\* C10: criticalChanges and breakingChanges have at most 10 entries each, and
\* each is the first 10 (or all) changes of its kind in the order they are
\* met walking the groups in order and each group's lines in order.
C10_FirstTen ==
    pc = "returned" =>
      LET critical == CriticalWalk(args.resources, 1, 1)
          breaking == BreakingWalk(args.resources, 1, 1)
          got      == ret.impact.criticalChanges
          gotB     == ret.impact.breakingChanges
      IN  /\ Len(got) = Min(10, Len(critical))
          /\ Len(gotB) = Min(10, Len(breaking))
          /\ \A k \in 1..Len(got) :
                /\ got[k].kind = args.resources[critical[k][1]].kind
                /\ got[k].field = critical[k][2]
          /\ \A k \in 1..Len(gotB) :
                gotB[k].kind = args.resources[breaking[k]].kind

\* more than 10 changes of each kind, met in two groups, the cut falling
\* inside the second group
C10_Witness ==
    /\ pc = "returned"
    /\ Len(args.resources) >= 2
    /\ Len(CriticalWalk(args.resources, 1, 1)) > 10
    /\ Len(BreakingWalk(args.resources, 1, 1)) > 10
    /\ ret.impact.criticalChanges[1].kind # ret.impact.criticalChanges[10].kind
    /\ ret.impact.breakingChanges[1].kind # ret.impact.breakingChanges[10].kind

(***************************************************************************)
(* Specification SpecSecret: the secret handling step on every bounded     *)
(* text, in each of the three modes                                        *)
(***************************************************************************)
MaxSecretLen == 2    \* longest text given to the secret handling step, in lines

ShortBase64   == <<"c2VjcmV0">>
LongBase64    == <<"QWxhZGRpbjpvcGVuc2VzYW1l">>
BadBase64     == <<"abcde">>
ShortPlain    == <<"not", "-", "b64">>
TwentyPlain   == <<"exactly", "-", "twenty", "-", "chars">>
LongPlain     == <<"a", "-", "very", "-", "long", "-", "plain", "-", "value">>

ValueKey == <<"value", ":", " ">>
DataKey  == <<"data", ":", " ">>

SecretVocabulary ==
    {ValueKey \o v : v \in {ShortBase64, LongBase64, BadBase64, ShortPlain, TwentyPlain, LongPlain}}
      \cup {<<"+", " ", " ">> \o ValueKey \o ShortBase64,
            <<"Value", ":", " ">> \o ShortBase64,
            <<"value", ":">> \o ShortPlain,
            DataKey \o <<"user", ":", "pass">>,
            DataKey \o <<"plain">>,
            <<" ", " ", "meta">> \o DataKey \o <<"name", ":", " ", "db">>,
            NewLine}

InitSecret ==
    /\ pc = "secretHandling"
    /\ args \in [text : SeqsUpTo(SecretVocabulary, MaxSecretLen) \ {<<>>},
                 secretHandling : {"suppress", "decode", "show"}]
    /\ ret = None

ApplySecretHandling ==
    /\ pc = "secretHandling"
    /\ ret' = SecretHandling(args.text, args.secretHandling)
    /\ pc' = "returned"
    /\ UNCHANGED args

NextSecret == ApplySecretHandling

SpecSecret == InitSecret /\ [][NextSecret]_vars

(***************************************************************************)
(* C12                                                                     *)
(***************************************************************************)
\* where a line holds 'key:' (0 when it does not); any letter case when ci
KeyIndex(line, key, ci) ==
    LET hits == {i \in 1..(Len(line) - 1) :
                   /\ line[i + 1] = ":"
                   /\ IF ci THEN Lower(line[i]) = key ELSE line[i] = key}
    IN  IF hits = {} THEN 0 ELSE SetMin(hits)

\* V: what follows 'key:' at i and the white space after it, up to the end of
\* the line
ValueAfter(line, i) == TrimStart(SubSeq(line, i + 2, Len(line)))

\* the longest run of base64 characters V begins with
RECURSIVE Base64Token(_)
Base64Token(v) ==
    IF v = <<>> \/ v[1] \in NotBase64 THEN <<>> ELSE <<v[1]>> \o Base64Token(Tail(v))

\* the line the claim describes for a line under 'suppress'
SuppressedLine(line) ==
    LET d == KeyIndex(line, "data", TRUE)
        v == KeyIndex(line, "value", TRUE)
    IN  IF d # 0 /\ \E k \in 1..Len(ValueAfter(line, d)) : ValueAfter(line, d)[k] = ":"
        THEN SubSeq(line, 1, d - 1) \o <<"data", ":", " ", "[", "REDACTED", "]">>
        ELSE IF v # 0 /\ (\/ CharLen(ValueAfter(line, v)) > 20
                          \/ Base64Token(ValueAfter(line, v)) = ValueAfter(line, v))
        THEN SubSeq(line, 1, v - 1) \o <<"value", ":", " ", "[", "REDACTED", "]">>
        ELSE line

\* the line the claim describes for a line under 'decode'; decoded is the
\* text the base64 token decodes to, Undefined when decoding fails
DecodedLine(line, decoded) ==
    LET v     == KeyIndex(line, "value", FALSE)
        token == Base64Token(ValueAfter(line, v))
    IN  IF v = 0 \/ token = <<>> \/ decoded = Undefined THEN line
        ELSE SubSeq(line, 1, v - 1) \o <<"value", ":", " ">> \o decoded
               \o <<" ", "(", "decoded", " ", "from", " ", "base64", ")">>
               \o SubSeq(ValueAfter(line, v), Len(token) + 1, Len(ValueAfter(line, v)))

\* decoding as the claim speaks of it: the two known words decode, a word of
\* 4k + 1 characters fails
ClaimDecoded(line) ==
    LET v     == KeyIndex(line, "value", FALSE)
        token == IF v = 0 THEN <<>> ELSE Base64Token(ValueAfter(line, v))
    IN  IF token = LongBase64 THEN <<"Aladdin", ":", "opensesame">>
        ELSE IF token = ShortBase64 THEN <<"secret">>
        ELSE IF CharLen(token) % 4 = 1 THEN Undefined
        ELSE <<"atob">> \o token

MaxParseLen == 2     \* longest text given to parseDiffByResources, in lines

\* 'spec.replicas  (<identifier>)'
IdentifierLine(identifier) ==
    <<"spec", ".", "replicas", " ", " ", "(">> \o identifier \o <<")">>

Identifiers ==
    {<<"Deployment", "/", "default", "/", "app">>,
     <<"Deployment", "/", "/", "app">>,
     <<"Deployment", "/", "ns1", "/", "app">>,
     <<"/", "ns1", "/", "app">>,
     <<"Deployment", "/", "ns1", "/">>,
     <<"v1", "/", "Deployment", "/", "default", "/", "app">>,
     <<"v1", "/", "/", "ns1", "/", "app">>,
     <<"Deployment">>,
     <<"Deployment", "/", "app">>,
     <<"/">>,
     <<"a", "/", "default", "/", "c", "/", "d", "/", "e">>}

FieldLines ==
    {<<"kind", ":", " ", "Service">>,
     <<"name", ":", " ", "my", "-", "svc">>,
     <<"namespace", ":", " ", "default">>,
     <<"namespace", ":", " ", "\"", "\"">>,
     <<"+", " ", "namespace", ":", " ", "ns1">>}

ParseVocabulary == {IdentifierLine(id) : id \in Identifiers} \cup FieldLines \cup {NewLine}

InitParse ==
    /\ pc = "parseDiffByResources"
    /\ args \in [diff : SeqsUpTo(ParseVocabulary, MaxParseLen) \ {<<>>}]
    /\ ret = None

CallParseDiffByResources ==
    /\ pc = "parseDiffByResources"
    /\ ret' = parseDiffByResources(args.diff)
    /\ pc' = "returned"
    /\ UNCHANGED args

NextParse == CallParseDiffByResources

SpecParse == InitParse /\ [][NextParse]_vars

(***************************************************************************)
(* C13                                                                     *)
(***************************************************************************)
\* C13: on both routes a parsed namespace of exactly "default" or the empty
\* string is made absent: no group has the namespace "default" or "".
C13_NamespaceNormalized ==
    pc = "returned" =>
      \A g \in 1..Len(ret) : ret[g].namespace \notin {<<"default">>, <<>>}

(***************************************************************************)
(* C14                                                                     *)
(***************************************************************************)
\* C14: whatever the parts of a parenthesized identifier, also with an empty
\* kind part or name part, every group has a non-empty kind and a non-empty
\* name ("Unknown" and "unknown" stand for the missing ones).
C14_KindAndNameNonEmpty ==
    pc = "returned" =>
      \A g \in 1..Len(ret) : ret[g].kind # <<>> /\ ret[g].name # <<>>

(***************************************************************************)
(* Specification SpecRender: the component rendered, and rendered again    *)
(* with the same props, for every bounded raw diff (absent, empty and      *)
(* white space included) and every setting of the options                  *)
(***************************************************************************)
MaxRenderLen == 2    \* longest generated raw diff of a render, in lines

SpaceLine == <<" ", " ">>

\* the raw diff of the component's tests
UnifiedDiff ==
    << <<"-", "-", "-", " ", "version1">>, <<"+", "+", "+", " ", "version2">>,
       <<"@@", " ", "-", "1", ",", "3", " ", "+", "1", ",", "3", " ", "@@">>,
       <<"-", "replicaCount", ":", " ", "1">>, <<"+", "replicaCount", ":", " ", "3">> >>

RenderVocabulary == {SpecHeader, OldLine, NewLine, SpaceLine}

\* <<>> is an absent result.diff, << <<>> >> the empty string
RenderDiffs ==
    SeqsUpTo(RenderVocabulary, MaxRenderLen) \cup {<< <<>> >>, ScenarioDiff, UnifiedDiff}

\* a pattern new RegExp rejects, and one that matches the lines holding 'old'
InvalidRegex == [valid |-> FALSE, literal |-> <<"(">>]
OldRegex     == [valid |-> TRUE, literal |-> <<"old">>]

RenderInputs ==
    [diff           : RenderDiffs,
     ignoreLabels   : BOOLEAN,
     secretHandling : {"suppress", "decode", "show"},
     contextLines   : {0, DefaultContextLines},
     suppressKinds  : {{}, {<<"deployment">>}},
     suppressRegex  : {<<>>, <<InvalidRegex>>, <<OldRegex>>}]

InitRender ==
    /\ pc = "mounted"
    /\ args \in RenderInputs
    /\ ret = <<>>

\* the first render; the function writes to nothing it is given
FirstRender ==
    /\ pc = "mounted"
    /\ ret' = <<DiffDisplay(args)>>
    /\ pc' = "rendered"
    /\ UNCHANGED args

\* a render of the same props after the first
Rerender ==
    /\ pc = "rendered"
    /\ ret' = Append(ret, DiffDisplay(args))
    /\ pc' = "rerendered"
    /\ UNCHANGED args

NextRender == FirstRender \/ Rerender

SpecRender == InitRender /\ [][NextRender]_vars

C15_InvalidRegexIsNoOp ==
    (pc = "rendered" /\ args.suppressRegex # <<>> /\ ~args.suppressRegex[1].valid)
    => ret[1] = DiffDisplay([args EXCEPT !.suppressRegex = <<>>])

\* an invalid pattern met by a diff that has groups and Statistics
C15_Witness ==
    /\ pc = "rendered"
    /\ args.suppressRegex = <<InvalidRegex>>
    /\ args.diff = ScenarioDiff
    /\ Len(ret[1].resources) = 2
    /\ ret[1].statistics # <<>>

(***************************************************************************)
(* C16                                                                     *)
(***************************************************************************)
\* is the raw diff absent, empty or made of white space only
NoContent(diff) ==
    \A l \in 1..Len(diff) : \A k \in 1..Len(diff[l]) : diff[l][k] \in {" ", "\n"}

\* C16: for an absent, empty or white-space-only result.diff and every setting
\* of the options there are no groups, no categories and no Statistics, and
\* the message is "No differences found".
C16_NoDifferences ==
    (pc \in {"rendered", "rerendered"} /\ NoContent(args.diff)) =>
      \A k \in 1..Len(ret) :
          /\ ret[k].resources = <<>>
          /\ ret[k].categories = <<>>
          /\ ret[k].statistics = <<>>
          /\ ret[k].message = <<"No differences found between versions">>

\* a diff of two lines of white space, rendered
C16_Witness ==
    /\ pc = "rendered"
    /\ args.diff = <<SpaceLine, SpaceLine>>
    /\ ret[1].message = <<"No differences found between versions">>

(***************************************************************************)
(* C17                                                                     *)
(***************************************************************************)
\* C17: whenever result.diff holds a character that is not white space, the
\* display shows the message "Differences detected".
C17_DifferencesDetected ==
    (pc \in {"rendered", "rerendered"} /\ ~NoContent(args.diff)) =>
      \A k \in 1..Len(ret) : ret[k].message = <<"Differences detected">>

(***************************************************************************)
(* formatExportContent (DiffDisplay.tsx 585-649).  The content is kept as  *)
(* the sequence of its lines; a fixed piece of a template literal is one   *)
(* token, a number is written by ToString.                                 *)
(***************************************************************************)
\* result.version1 || 'N/A'
VersionLabel(version) == IF Truthy(version) THEN version ELSE <<"N/A">>

\* String.prototype.toUpperCase on the impact level and the severity
ToUpperCase(word) ==
    CASE word = "high"   -> "HIGH"
      [] word = "medium" -> "MEDIUM"
      [] word = "low"    -> "LOW"
      [] OTHER           -> word

\* the description calculateStatistics gives a critical change (lines 494-510)
CriticalDescription(field) ==
    CASE field = "replicas" -> "Replica count changed"
      [] field = "image"    -> "Container image changed"
      [] OTHER              -> "Resource limits/requests changed"

\* lines 587-595
ExportHeader(format, result, timestamp) ==
    IF format = "markdown"
    THEN << <<"# Helm Chart Diff Report">>, <<>>,
            <<"**Generated:** ", timestamp>>,
            <<"**Version 1:** ">> \o VersionLabel(result.version1),
            <<"**Version 2:** ">> \o VersionLabel(result.version2), <<>> >>
    ELSE << <<"Helm Chart Diff Report">>,
            <<"Generated: ", timestamp>>,
            <<"Version 1: ">> \o VersionLabel(result.version1),
            <<"Version 2: ">> \o VersionLabel(result.version2), <<>> >>

\* lines 600-607 and 632-639: the counts, with the marker of a list item
ExportSummary(dash, statistics) ==
    << <<dash \o "Total Resources: ", ToString(statistics.summary.totalResources)>>,
       <<dash \o "Added: ", ToString(statistics.summary.resourcesAdded)>>,
       <<dash \o "Removed: ", ToString(statistics.summary.resourcesRemoved)>>,
       <<dash \o "Modified: ", ToString(statistics.summary.resourcesModified)>>,
       <<dash \o "Impact Level: ", ToUpperCase(statistics.impact.level)>>,
       <<dash \o "Lines: +", ToString(statistics.lines.added), " / -",
         ToString(statistics.lines.removed)>>,
       <<>> >>

\* lines 609-615: the kinds, byKind.slice(0, 10)
ExportByKind(byKind) ==
    IF Len(byKind) = 0 THEN <<>>
    ELSE << <<"### Changes by Resource Kind">>, <<>> >>
         \o [k \in 1..Min(Len(byKind), 10) |->
               <<"- **">> \o byKind[k].kind \o <<"**: ", ToString(byKind[k].count), " (">>
                 \o (IF byKind[k].added > 0
                     THEN <<"+", ToString(byKind[k].added), " ">> ELSE <<>>)
                 \o (IF byKind[k].removed > 0
                     THEN <<"-", ToString(byKind[k].removed), " ">> ELSE <<>>)
                 \o (IF byKind[k].modified > 0
                     THEN <<"~", ToString(byKind[k].modified)>> ELSE <<>>)
                 \o <<")">>]
         \o << <<>> >>

\* lines 617-623
ExportCritical(criticalChanges) ==
    IF Len(criticalChanges) = 0 THEN <<>>
    ELSE << <<"### Critical Changes">>, <<>> >>
         \o [k \in 1..Len(criticalChanges) |->
               <<"- **">> \o criticalChanges[k].resource \o <<"** (">>
                 \o criticalChanges[k].kind
                 \o <<"): ", criticalChanges[k].field, " - ",
                      CriticalDescription(criticalChanges[k].field)>>]
         \o << <<>> >>

\* lines 625-631
ExportBreaking(breakingChanges) ==
    IF Len(breakingChanges) = 0 THEN <<>>
    ELSE << <<"### Breaking Changes">>, <<>> >>
         \o [k \in 1..Len(breakingChanges) |->
               <<"- **">> \o breakingChanges[k].resource \o <<"** (">>
                 \o breakingChanges[k].kind
                 \o <<") [", ToUpperCase(breakingChanges[k].severity), "]: ">>
                 \o breakingChanges[k].field \o <<" - ", "Required field removed">>]
         \o << <<>> >>

\* lines 597-641: statsSection; statistics is <<>> (null) or one record
ExportStatsSection(format, statistics) ==
    IF statistics = <<>> THEN <<>>
    ELSE IF format = "markdown"
    THEN << <<"## Statistics">>, <<>>, <<"### Summary">> >>
         \o ExportSummary("- ", statistics[1])
         \o ExportByKind(statistics[1].byKind)
         \o ExportCritical(statistics[1].impact.criticalChanges)
         \o ExportBreaking(statistics[1].impact.breakingChanges)
    ELSE << <<"STATISTICS">>, <<"==========">> >> \o ExportSummary("", statistics[1])

\* lines 643-645: diffSection, the diff as it is; the Markdown fence of three
\* backquotes is written <fence>
ExportDiffSection(format, diff) ==
    IF format = "markdown"
    THEN << <<"## Diff Output">>, <<>>, <<"<fence>", "diff">> >> \o diff \o << <<"<fence>">> >>
    ELSE << <<"DIFF OUTPUT">>, <<"============">>, <<>> >> \o diff

\* the value of new Date().toISOString() is an argument here
formatExportContent(format, diff, result, statistics, timestamp) ==
    ExportHeader(format, result, timestamp)
      \o ExportStatsSection(format, statistics)
      \o ExportDiffSection(format, diff)

(***************************************************************************)
(* Specification SpecExport: formatExportContent in both formats, on the   *)
(* Statistics of bounded collections of groups                             *)
(***************************************************************************)
MaxExportKinds == 11   \* most kinds in an exported collection

ExportKinds ==
    <<"Deployment", "Service", "ConfigMap", "Secret", "Ingress", "Job", "Pod", "Role",
      "Namespace", "Node", "Widget", "Gadget", "Gizmo">>

\* n groups of n kinds, each with the given lines
ExportResources(n, lines) ==
    [k \in 1..n |->
       [category  |-> categorizeChange(<<"spec", ".", "replicas">>, <<ExportKinds[k]>>),
        path      |-> <<"spec", ".", "replicas">>,
        kind      |-> <<ExportKinds[k]>>,
        name      |-> <<"app">>,
        namespace |-> Undefined,
        lines     |-> lines]]

ExportDiff == <<SpecHeader, OldLine, NewLine>>

ExportStatistics ==
    {<<>>} \cup
    {<<calculateStatistics(ExportResources(n, lines), ExportDiff)>> :
        n \in {1, 2, MaxExportKinds},
        lines \in {<<NewLine, OldLine>>, <<RequiredLine>>, <<ReplicasLine, NewLine>>}}

ExportInputs ==
    [format     : {"text", "markdown"},
     diff       : {ExportDiff},
     result     : [version1 : {<<"v1", ".", "0", ".", "0">>, Undefined},
                   version2 : {<<"v1", ".", "1", ".", "0">>, <<>>}],
     statistics : ExportStatistics,
     timestamp  : {"2024-01-01T00:00:00.000Z", "2024-06-30T12:00:00.000Z"}]

InitExport ==
    /\ pc = "formatExportContent"
    /\ args \in ExportInputs
    /\ ret = None

CallFormatExportContent ==
    /\ pc = "formatExportContent"
    /\ ret' = formatExportContent(args.format, args.diff, args.result, args.statistics,
                                  args.timestamp)
    /\ pc' = "returned"
    /\ UNCHANGED args

NextExport == CallFormatExportContent

SpecExport == InitExport /\ [][NextExport]_vars

(***************************************************************************)
(* C18                                                                     *)
(***************************************************************************)
\* the lines of an export before its diff section
BeforeDiff(content) ==
    LET marks == {k \in 1..Len(content) : content[k] \in {<<"## Diff Output">>, <<"DIFF OUTPUT">>}}
    IN  IF marks = {} THEN content ELSE SubSeq(content, 1, SetMin(marks) - 1)

\* some line of the lines holds all the given pieces
Mentions(lines, pieces) ==
    \E k \in 1..Len(lines) : \A p \in pieces : Includes(lines[k], p)

\* the export ends with the diff as it is (before the closing fence, if any)
EndsWithDiff(content, diff) ==
    \E k \in 1..Len(content) :
        /\ SubSeq(content, k, k + Len(diff) - 1) = diff
        /\ k + Len(diff) - 1 >= Len(content) - 1

\* C18: with Statistics, an export in either format holds the timestamp, the
\* two version labels, the summary counts, the impact level, the line
\* totals, the first 10 kinds of the per-kind breakdown, the critical
\* changes, the breaking changes and the whole diff as it is.
C18_ExportContents ==
    (pc = "returned" /\ args.statistics # <<>>) =>
      LET st    == args.statistics[1]
          stats == BeforeDiff(ret)
      IN  /\ Mentions(stats, {<<args.timestamp>>})
          /\ Mentions(stats, {VersionLabel(args.result.version1)})
          /\ Mentions(stats, {VersionLabel(args.result.version2)})
          /\ Mentions(stats, {<<ToString(st.summary.totalResources)>>})
          /\ Mentions(stats, {<<ToString(st.summary.resourcesAdded)>>})
          /\ Mentions(stats, {<<ToString(st.summary.resourcesRemoved)>>})
          /\ Mentions(stats, {<<ToString(st.summary.resourcesModified)>>})
          /\ Mentions(stats, {<<ToUpperCase(st.impact.level)>>})
          /\ Mentions(stats, {<<ToString(st.lines.added)>>, <<ToString(st.lines.removed)>>})
          /\ \A k \in 1..Min(10, Len(st.byKind)) :
                Mentions(stats, {st.byKind[k].kind, <<ToString(st.byKind[k].count)>>})
          /\ \A k \in 1..Len(st.impact.criticalChanges) :
                Mentions(stats, {st.impact.criticalChanges[k].resource,
                                 <<st.impact.criticalChanges[k].field>>})
          /\ \A k \in 1..Len(st.impact.breakingChanges) :
                Mentions(stats, {st.impact.breakingChanges[k].resource,
                                 <<"Required field removed">>})
          /\ EndsWithDiff(ret, args.diff)

(***************************************************************************)
(* POST /api/compare: the route handler and the call it awaits             *)
(***************************************************************************)
\* /^(https?:\/\/|git@)/ on the tokens of the repository string; the
\* expression has no i flag, so the scheme is matched as it is written
RepositoryMatches_IgnoreCase(repository) ==
    \/ StartsWith(repository, <<"http", ":", "/", "/">>)
    \/ StartsWith(repository, <<"https", ":", "/", "/">>)
    \/ StartsWith(repository, <<"HTTP", ":", "/", "/">>)
    \/ StartsWith(repository, <<"HTTPS", ":", "/", "/">>)
    \/ StartsWith(repository, <<"git", "@">>)

RepositoryMatches(repository) ==
    \/ StartsWith(repository, <<"http", ":", "/", "/">>)
    \/ StartsWith(repository, <<"https", ":", "/", "/">>)
    \/ StartsWith(repository, <<"git", "@">>)

MissingFields ==
    <<"Missing required fields: repository, chartPath, version1, version2">>

InvalidRepository == <<"Invalid repository URL format. Please use:">>

EmptyChartPath == <<"Chart path cannot be empty.">>

CompareFailed == <<"Failed to compare Helm chart versions">>

\* NextResponse.json(body, { status }); a field the body does not carry is
\* Undefined, and the status is 200 where no init is given
JsonResponse(status, success, error, diff, version1, version2) ==
    [status |-> status, success |-> success, error |-> error,
     diff |-> diff, version1 |-> version1, version2 |-> version2]

BadRequest(error) ==
    JsonResponse(400, FALSE, error, Undefined, Undefined, Undefined)

\* the three guards that return before HelmService is constructed; <<>> when
\* none of them returns
Validate(body) ==
    IF \/ ~Truthy(body.repository) \/ ~Truthy(body.chartPath)
       \/ ~Truthy(body.version1)   \/ ~Truthy(body.version2)
    THEN <<BadRequest(MissingFields)>>
    ELSE IF ~RepositoryMatches(body.repository)
    THEN <<BadRequest(InvalidRepository)>>
    ELSE IF Trim(body.chartPath) = <<>>
    THEN <<BadRequest(EmptyChartPath)>>
    ELSE <<>>

\* the options object handed to helmService.compareVersions
CompareOptions(body) ==
    [repository |-> body.repository, chartPath |-> body.chartPath,
     version1 |-> body.version1, version2 |-> body.version2,
     valuesFile |-> body.valuesFile, valuesContent |-> body.valuesContent]

\* error.message || 'Failed to compare Helm chart versions'
ErrorMessage(error) ==
    IF Truthy(error.message) THEN error.message ELSE CompareFailed

(***************************************************************************)
(* SpecRoute: one request through POST.  pc is the handler's position      *)
(* ("received", "awaiting" the compareVersions promise, "responded"), args *)
(* is the parsed body, ret holds the responses returned, the calls made to *)
(* compareVersions and the way the awaited promise settled.                *)
(***************************************************************************)
Repositories ==
    { Undefined, <<>>,
      <<"https", ":", "/", "/", "github.com/test/repo.git">>,
      <<"http", ":", "/", "/", "github.com/test/repo.git">>,
      <<"git", "@", "github.com:test/repo.git">>,
      <<"HTTPS", ":", "/", "/", "github.com/test/repo.git">>,
      <<"invalid", "-", "url">>,
      <<" ", "https", ":", "/", "/", "github.com/test/repo.git">>,
      <<"git", ":", "/", "/", "github.com/test/repo.git">> }

ChartPaths ==
    { Undefined, <<>>, <<" ">>, <<" ", "\n">>, <<"charts", "/", "app">>,
      <<" ", "charts", "/", "app">> }

Versions == { Undefined, <<>>, <<"v1.0.0">>, <<"v1.1.0">> }

RouteBodies ==
    [repository : Repositories, chartPath : ChartPaths,
     version1 : Versions, version2 : Versions,
     valuesFile : {Undefined}, valuesContent : {Undefined, <<"replicaCount: 2">>}]

\* what the promise of compareVersions can settle with
ResolvedValues ==
    { [diff |-> <<>>, hasDiff |-> FALSE],
      [diff |-> <<"-", "replicaCount: 1", "\n", "+", "replicaCount: 3">>,
       hasDiff |-> TRUE] }

RejectedErrors ==
    { [message |-> <<"Helm command failed">>],
      [message |-> <<"Failed to clone repository", ":", " ", "Error">>],
      [message |-> <<>>] }

InitRoute ==
    /\ pc = "received"
    /\ args \in RouteBodies
    /\ ret = [responses |-> <<>>, invoked |-> <<>>, settled |-> <<>>]

\* lines 139-180: the guards, then the call
ReceiveRequest ==
    /\ pc = "received"
    /\ IF Validate(args) # <<>>
       THEN /\ ret' = [ret EXCEPT !.responses = Append(@, Validate(args)[1])]
            /\ pc' = "responded"
       ELSE /\ ret' = [ret EXCEPT !.invoked = Append(@, CompareOptions(args))]
            /\ pc' = "awaiting"
    /\ UNCHANGED args

\* lines 173-187: the awaited promise resolves
CompareResolved ==
    /\ pc = "awaiting"
    /\ \E result \in ResolvedValues :
          ret' = [ret EXCEPT
                    !.settled = <<[kind |-> "resolved", value |-> result]>>,
                    !.responses = Append(@, JsonResponse(200, TRUE, Undefined,
                                     result.diff, args.version1, args.version2))]
    /\ pc' = "responded"
    /\ UNCHANGED args

\* lines 189-195: the awaited promise rejects
CompareRejected ==
    /\ pc = "awaiting"
    /\ \E error \in RejectedErrors :
          ret' = [ret EXCEPT
                    !.settled = <<[kind |-> "rejected", value |-> error]>>,
                    !.responses = Append(@, JsonResponse(500, FALSE,
                                     ErrorMessage(error), Undefined, Undefined,
                                     Undefined))]
    /\ pc' = "responded"
    /\ UNCHANGED args

NextRoute == ReceiveRequest \/ CompareResolved \/ CompareRejected

SpecRoute == InitRoute /\ [][NextRoute]_vars

\* a field of the request that is missing or the empty string
MissingOrEmpty(field) == field = Undefined \/ field = <<>>

\* a string of one or more characters, all of them white space
WhitespaceOnly(s) ==
    s # Undefined /\ s # <<>> /\ \A k \in 1..Len(s) : IsSpace(s[k])

\* the first characters of s spell one of the three accepted prefixes
HasRepositoryPrefix(s) ==
    \E prefix \in { <<"http", ":", "/", "/">>, <<"https", ":", "/", "/">>,
                    <<"git", "@">> } :
        Len(s) >= Len(prefix) /\ \A k \in 1..Len(prefix) : s[k] = prefix[k]

RequestInvalid(body) ==
    \/ MissingOrEmpty(body.repository) \/ MissingOrEmpty(body.chartPath)
    \/ MissingOrEmpty(body.version1)   \/ MissingOrEmpty(body.version2)
    \/ ~HasRepositoryPrefix(body.repository)
    \/ WhitespaceOnly(body.chartPath)

\* C19: a request gets no more than one response, and the one it gets is a
\* 400 with success false and no call of compareVersions when a required
\* field is missing or empty, the repository has none of the prefixes
\* http://, https://, git@ or the chart path is white space only; otherwise
\* compareVersions is called once, and the response is a 500 with success
\* false and an error message when it rejects, a 200 with success true, its
\* diff and the request's version1 and version2 when it resolves.
C19_OneResponsePerRequest ==
    /\ Len(ret.responses) <= 1
    /\ pc = "responded" =>
         /\ Len(ret.responses) = 1
         /\ LET response == ret.responses[1]
            IN  IF RequestInvalid(args)
                THEN /\ response.status = 400
                     /\ response.success = FALSE
                     /\ ret.invoked = <<>>
                ELSE /\ Len(ret.invoked) = 1
                     /\ Len(ret.settled) = 1
                     /\ ret.settled[1].kind = "rejected" =>
                          /\ response.status = 500
                          /\ response.success = FALSE
                          /\ response.error # Undefined
                          /\ response.error # <<>>
                     /\ ret.settled[1].kind = "resolved" =>
                          /\ response.status = 200
                          /\ response.success = TRUE
                          /\ response.diff = ret.settled[1].value.diff
                          /\ response.version1 = args.version1
                          /\ response.version2 = args.version2

\* compareVersions rejected with an error of no message and the request was
\* answered with a 500
C19_Witness ==
    /\ pc = "responded"
    /\ ~RequestInvalid(args)
    /\ ret.settled # <<>>
    /\ ret.settled[1].kind = "rejected"
    /\ ret.settled[1].value.message = <<>>
    /\ ret.responses[1].status = 500

(***************************************************************************)
(* HelmService.compareVersions, one await at a time                        *)
(***************************************************************************)
ErrorOf(message) == [message |-> message]

\* cloneRepository's catch: new Error(`Failed to clone repository: ${error}`)
CloneError(error) ==
    ErrorOf(<<"Failed to clone repository", ":", " ", "Error", ":", " ">>
            \o error.message)

\* extractVersion's outer catch
ExtractError(version, error) ==
    ErrorOf(<<"Failed to extract version", " ">> \o version \o <<":", " ">>
            \o (IF Truthy(error.message) THEN error.message ELSE <<"Error">>))

DyffNotInstalled == ErrorOf(<<"dyff is not installed.">>)

\* compareWithDyff from the run of dyff on: a record of the exit code and
\* the two streams to the string returned, or <<>> when it throws
DyffReturn(run) ==
    IF run.code = 0 \/ run.code = 1
    THEN <<Trim(IF run.stdout # <<>> THEN run.stdout ELSE run.stderr)>>
    ELSE IF Trim(run.stdout) # <<>> THEN <<Trim(run.stdout)>>
    ELSE IF Trim(run.stderr) # <<>> THEN <<Trim(run.stderr)>>
    ELSE <<>>

DyffError(run) ==
    ErrorOf(<<"dyff failed", ":", " ">>
            \o (IF Truthy(run.message) THEN run.message ELSE <<"Unknown error">>))

\* path.join: the segments of the arguments, with empty and "." segments
\* dropped and each ".." taking the segment before it; the paths of the
\* model are absolute
RECURSIVE NormalizeSegments(_, _)
NormalizeSegments(segments, kept) ==
    IF segments = <<>> THEN kept
    ELSE LET segment == Head(segments)
         IN  IF segment = <<>> \/ segment = <<".">>
             THEN NormalizeSegments(Tail(segments), kept)
             ELSE IF segment = <<"..">>
             THEN NormalizeSegments(Tail(segments),
                                    SubSeq(kept, 1, Max(Len(kept) - 1, 0)))
             ELSE NormalizeSegments(Tail(segments), Append(kept, segment))

RECURSIVE Absolute(_)
Absolute(segments) ==
    IF segments = <<>> THEN <<>>
    ELSE <<"/">> \o Head(segments) \o Absolute(Tail(segments))

PathJoin(a, b) ==
    LET kept == NormalizeSegments(Split(a \o <<"/">> \o b, "/"), <<>>)
    IN  IF kept = <<>> THEN <<"/">> ELSE Absolute(kept)

\* this.workDir, and the workPath and repoPath of one request
WorkDir  == PathJoin(<<"/", "tmp">>, <<"helm-diff-viewer">>)
WorkPath == PathJoin(WorkDir, <<"requestId">>)
RepoPath == PathJoin(WorkPath, <<"repo">>)

\* the values file compareVersions hands to compareWithDyff, <<>> for none
ValuesFilePath(options) ==
    IF Truthy(options.valuesContent)
    THEN <<PathJoin(WorkPath, <<"values.yaml">>)>>
    ELSE IF Truthy(options.valuesFile)
    THEN <<PathJoin(RepoPath, options.valuesFile)>>
    ELSE <<>>

\* valuesFile ? `-f ${valuesFile}` : ''
ValuesFlag(valuesFile) ==
    IF valuesFile # <<>> THEN <<"-f", " ">> \o valuesFile[1] ELSE <<>>

\* cleanup never rejects: the failure of fs.rm is caught and logged
cleanup_NoCatch(rm) == rm

cleanup(rm) == "fulfilled"

(***************************************************************************)
(* SpecHelm: one call of compareVersions.  pc is the await the call is at  *)
(* ("mkdir", "clone", "extract1", "extract2", "values", "render", "diff",  *)
(* "cleanup" on the way out of the try block, "catch" in the catch block)  *)
(* or the way its promise settled ("resolved", "rejected"); args is the    *)
(* options object; ret holds the number of times fs.rm was called on the   *)
(* work directory and how those calls ended, the error the catch block     *)
(* received with the step that threw it, the diff and the settled value.   *)
(***************************************************************************)
HelmOptions ==
    [repository : { <<"https", ":", "/", "/", "github.com/test/repo.git">> },
     chartPath : { <<"charts", "/", "app">> },
     version1 : { <<"v1.0.0">> }, version2 : { <<"v1.1.0">> },
     valuesFile : { Undefined, <<>>, <<"values.yaml">>,
                    <<"values", "/", "prod.yaml">>,
                    <<"..", "/", "values.yaml">> },
     valuesContent : { Undefined, <<>>, <<"replicaCount: 2">> }]

SystemErrors ==
    { ErrorOf(<<"EACCES: permission denied">>), ErrorOf(<<"Command failed">>),
      ErrorOf(<<>>) }

DyffRuns ==
    { [code |-> 0, stdout |-> <<>>, stderr |-> <<>>, message |-> <<>>],
      [code |-> 1, stdout |-> <<"replicaCount", " ", "\n">>, stderr |-> <<>>,
       message |-> <<"Command failed">>],
      [code |-> 1, stdout |-> <<>>, stderr |-> <<>>,
       message |-> <<"Command failed">>],
      [code |-> 2, stdout |-> <<>>, stderr |-> <<"unable to load">>,
       message |-> <<"Command failed">>],
      [code |-> 2, stdout |-> <<>>, stderr |-> <<" ">>,
       message |-> <<"Command failed">>],
      [code |-> 2, stdout |-> <<>>, stderr |-> <<>>, message |-> <<>>] }

InitHelm ==
    /\ pc = "mkdir"
    /\ args \in HelmOptions
    /\ ret = [cleanups |-> 0, rm |-> <<>>, caught |-> <<>>, diff |-> <<>>,
              settled |-> <<>>, valuesFilePath |-> <<>>, rendered |-> <<>>]

\* a rejected await inside the try block: control moves to the catch block
Throws(step, error) ==
    /\ ret' = [ret EXCEPT !.caught = <<[step |-> step, error |-> error]>>]
    /\ pc' = "catch"
    /\ UNCHANGED args

Proceeds(next) == pc' = next /\ UNCHANGED <<args, ret>>

\* line 35: fs.mkdir(workPath, { recursive: true })
MakeWorkDir ==
    /\ pc = "mkdir"
    /\ \/ Proceeds("clone")
       \/ \E error \in SystemErrors : Throws("mkdir", error)

\* line 39: cloneRepository
CloneRepository ==
    /\ pc = "clone"
    /\ \/ Proceeds("extract1")
       \/ \E error \in SystemErrors : Throws("clone", CloneError(error))

\* line 45: extractVersion of version1
ExtractVersion1 ==
    /\ pc = "extract1"
    /\ \/ Proceeds("extract2")
       \/ \E error \in SystemErrors :
             Throws("extract1", ExtractError(args.version1, error))

\* line 46: extractVersion of version2
ExtractVersion2 ==
    /\ pc = "extract2"
    /\ \/ Proceeds("values")
       \/ \E error \in SystemErrors :
             Throws("extract2", ExtractError(args.version2, error))

\* lines 49-55: the values file is written only for a non-empty valuesContent
WriteValuesFile ==
    /\ pc = "values"
    /\ \/ /\ ret' = [ret EXCEPT !.valuesFilePath = ValuesFilePath(args)]
          /\ pc' = "render"
          /\ UNCHANGED args
       \/ /\ Truthy(args.valuesContent)
          /\ \E error \in SystemErrors : Throws("values", error)

\* compareWithDyff up to the run of dyff: the check that dyff is installed,
\* the two runs of helm template, the two temporary files
RenderCharts ==
    /\ pc = "render"
    /\ \/ /\ ret' = [ret EXCEPT
                        !.rendered = <<[valuesFlag |-> ValuesFlag(ret.valuesFilePath)]>>]
          /\ pc' = "diff"
          /\ UNCHANGED args
       \/ Throws("render", DyffNotInstalled)
       \/ \E error \in SystemErrors : Throws("render", error)

\* compareWithDyff from the run of dyff on
RunDyff ==
    /\ pc = "diff"
    /\ \E run \in DyffRuns :
          IF DyffReturn(run) # <<>>
          THEN /\ ret' = [ret EXCEPT !.diff = DyffReturn(run)[1]]
               /\ pc' = "cleanup"
               /\ UNCHANGED args
          ELSE Throws("diff", DyffError(run))

\* lines 61-66: await this.cleanup(workPath), then the return; a rejected
\* cleanup would be one more rejected await of the try block
CleanupAndReturn ==
    /\ pc = "cleanup"
    /\ \E rm \in {"fulfilled", "rejected"} :
          IF cleanup(rm) = "fulfilled"
          THEN /\ ret' = [ret EXCEPT
                            !.cleanups = @ + 1,
                            !.rm = Append(@, rm),
                            !.settled = <<[kind |-> "resolved",
                                           value |-> [diff |-> ret.diff,
                                                      hasDiff |-> Trim(ret.diff) # <<>>]]>>]
               /\ pc' = "resolved"
          ELSE /\ ret' = [ret EXCEPT
                            !.cleanups = @ + 1,
                            !.rm = Append(@, rm),
                            !.caught = <<[step |-> "cleanup",
                                          error |-> ErrorOf(<<"ENOTEMPTY">>)]>>]
               /\ pc' = "catch"
    /\ UNCHANGED args

\* lines 67-71: await this.cleanup(workPath).catch(() => {}), then throw error
CleanupAndThrow ==
    /\ pc = "catch"
    /\ \E rm \in {"fulfilled", "rejected"} :
          ret' = [ret EXCEPT
                    !.cleanups = @ + 1,
                    !.rm = Append(@, rm),
                    !.settled = <<[kind |-> "rejected",
                                   value |-> ret.caught[1].error]>>]
    /\ pc' = "rejected"
    /\ UNCHANGED args

NextHelm ==
    \/ MakeWorkDir \/ CloneRepository \/ ExtractVersion1 \/ ExtractVersion2
    \/ WriteValuesFile \/ RenderCharts \/ RunDyff
    \/ CleanupAndReturn \/ CleanupAndThrow

SpecHelm == InitHelm /\ [][NextHelm]_vars

HelmSteps ==
    {"mkdir", "clone", "extract1", "extract2", "values", "render", "diff"}

\* C20: the work directory's removal is never attempted twice and has been
\* attempted once when the promise is settled; a call that failed at one of
\* its steps is rejected with the error of that step (from the clone, one
\* that begins with "Failed to clone repository"), a call no step of which
\* failed is resolved with the diff, and this is so however the removal
\* itself ended.
C20_CleanupOnceThenSettle ==
    /\ ret.cleanups <= 1
    /\ ret.settled = <<>> <=> pc \notin {"resolved", "rejected"}
    /\ pc \in {"resolved", "rejected"} =>
         /\ ret.cleanups = 1
         /\ Len(ret.rm) = 1
    /\ pc = "rejected" =>
         /\ ret.settled[1].kind = "rejected"
         /\ ret.caught # <<>>
         /\ ret.caught[1].step \in HelmSteps
         /\ ret.settled[1].value = ret.caught[1].error
         /\ ret.caught[1].step = "clone" =>
              StartsWith(ret.settled[1].value.message,
                         <<"Failed to clone repository">>)
    /\ pc = "resolved" =>
         /\ ret.settled[1].kind = "resolved"
         /\ ret.caught = <<>>
         /\ ret.settled[1].value.diff = ret.diff

\* the clone failed, the removal of the work directory failed too, and the
\* promise is rejected with the clone's error
C20_Witness ==
    /\ pc = "rejected"
    /\ ret.caught[1].step = "clone"
    /\ ret.rm = <<"rejected">>
    /\ ret.settled[1].value = ret.caught[1].error

\* C21: a call of compareVersions on a system without dyff is not rejected
\* for the lack of dyff (it is to resolve with the simple line diff).
C21_NoRejectionForMissingDyff ==
    pc = "rejected" => ret.settled[1].value # DyffNotInstalled

(***************************************************************************)
(* The page: Home, its CompareForm and the DiffDisplay it renders          *)
(***************************************************************************)
\* an optional boolean of CompareRequest is a sequence of at most one value
defaultFormData ==
    [repository |-> <<>>, chartPath |-> <<"charts", "/", "app">>,
     version1 |-> <<>>, version2 |-> <<>>, valuesFile |-> <<>>,
     valuesContent |-> <<>>, ignoreLabels |-> <<FALSE>>]

\* the data of the three buttons of DemoExamples; none carries ignoreLabels
demoExamples ==
    << [repository |-> <<"https", ":", "/", "/", "github.com/helm/examples.git">>,
        chartPath |-> <<"charts", "/", "nginx">>,
        version1 |-> <<"v1.0.0">>, version2 |-> <<"v1.1.0">>,
        valuesFile |-> <<"values.yaml">>, valuesContent |-> Undefined,
        ignoreLabels |-> <<>>],
       [repository |-> <<"https", ":", "/", "/", "github.com/helm/examples.git">>,
        chartPath |-> <<"charts", "/", "nginx">>,
        version1 |-> <<"v1.0.0">>, version2 |-> <<"v1.1.0">>,
        valuesFile |-> Undefined, valuesContent |-> <<"replicaCount: 3">>,
        ignoreLabels |-> <<>>],
       [repository |-> <<"https", ":", "/", "/", "github.com/helm/examples.git">>,
        chartPath |-> <<"charts", "/", "nginx">>,
        version1 |-> <<"main">>, version2 |-> <<"develop">>,
        valuesFile |-> <<"values/prod.yaml">>, valuesContent |-> Undefined,
        ignoreLabels |-> <<>>] >>

\* a || b on strings
OrString(a, b) == IF Truthy(a) THEN a ELSE b

\* CompareForm's state after it is mounted with initialData: the initial
\* state, then the effect on initialData
MountedForm(initialData) ==
    IF initialData = <<>> THEN defaultFormData
    ELSE LET d == initialData[1]
         IN  [repository    |-> OrString(d.repository, <<>>),
              chartPath     |-> OrString(d.chartPath, <<"charts", "/", "app">>),
              version1      |-> OrString(d.version1, <<>>),
              version2      |-> OrString(d.version2, <<>>),
              valuesFile    |-> OrString(d.valuesFile, <<>>),
              valuesContent |-> OrString(d.valuesContent, <<>>),
              ignoreLabels  |-> IF d.ignoreLabels = <<TRUE>> THEN <<TRUE>>
                                ELSE <<FALSE>>]

progressMessages ==
    << <<"Cloning repository...">>, <<"Extracting version 1...">>,
       <<"Extracting version 2...">>, <<"Building chart dependencies...">>,
       <<"Rendering Helm templates...">>, <<"Comparing YAML differences...">> >>

\* the props of the DiffDisplay the page renders, <<>> when it renders none
DiffDisplayProps(home) ==
    IF home.result = <<>> THEN <<>>
    ELSE <<[result |-> home.result[1],
            ignoreLabels |-> IF home.formData = <<>> THEN <<>>
                             ELSE home.formData[1].ignoreLabels]>>

(***************************************************************************)
(* SpecPage: the page under the user's clicks and the callbacks of         *)
(* handleCompare.  args is the state of the mounted CompareForm; ret is    *)
(* the state of Home; pc is what handleCompare has pending: the await the  *)
(* running call is at ("idle" when none runs), the request body of the     *)
(* latest call, its messageIndex, whether its two intervals are set, the   *)
(* response it awaits the JSON of, and the number of 1500 ms reset timers  *)
(* not yet fired.                                                          *)
(***************************************************************************)
MaxResetTimers == 2

PageResponses ==
    { [ok |-> TRUE, json |-> <<[success |-> TRUE, diff |-> UnifiedDiff,
                                error |-> Undefined]>>],
      [ok |-> TRUE, json |-> <<[success |-> TRUE, diff |-> << <<>> >>,
                                error |-> Undefined]>>],
      [ok |-> FALSE, json |-> <<[success |-> FALSE, diff |-> <<>>,
                                 error |-> <<"Invalid repository URL format.">>]>>],
      [ok |-> FALSE, json |-> <<[success |-> FALSE, diff |-> <<>>,
                                 error |-> Undefined]>>],
      [ok |-> FALSE, json |-> <<>>] }

InitPage ==
    /\ args = MountedForm(<<>>)
    /\ ret = [result |-> <<>>, loading |-> FALSE, error |-> <<>>,
              formData |-> <<>>, progressMessage |-> <<>>, progressStep |-> 0]
    /\ pc = [at |-> "idle", body |-> <<>>, messageIndex |-> 0,
             intervals |-> FALSE, response |-> <<>>, resetTimers |-> 0]

\* DemoExamples' onSelectExample: setFormData(data); the key of CompareForm
\* changes with it and the form is mounted anew
SelectExample ==
    /\ \E i \in 1..Len(demoExamples) :
          /\ ret.formData # <<demoExamples[i]>>
          /\ ret' = [ret EXCEPT !.formData = <<demoExamples[i]>>]
          /\ args' = MountedForm(<<demoExamples[i]>>)
    /\ UNCHANGED pc

\* the checkbox's onChange
ToggleIgnoreLabels ==
    /\ args' = [args EXCEPT !.ignoreLabels = <<~args.ignoreLabels[1]>>]
    /\ UNCHANGED <<pc, ret>>

\* the submit button (disabled while loading): handleSubmit, then
\* handleCompare up to its first await
SubmitForm ==
    /\ ~ret.loading
    /\ ret' = [ret EXCEPT !.loading = TRUE, !.error = <<>>, !.result = <<>>,
                          !.progressMessage = <<"Initializing comparison...">>,
                          !.progressStep = 1]
    /\ pc' = [pc EXCEPT !.at = "initWait", !.body = <<args>>,
                        !.messageIndex = 0, !.response = <<>>]
    /\ UNCHANGED args

\* after the 100 ms: the second update, the two intervals, the fetch
StartFetch ==
    /\ pc.at = "initWait"
    /\ ret' = [ret EXCEPT !.progressMessage = progressMessages[1],
                          !.progressStep = 2]
    /\ pc' = [pc EXCEPT !.at = "fetching", !.intervals = TRUE]
    /\ UNCHANGED args

\* a tick of progressInterval
ProgressTick ==
    /\ pc.intervals
    /\ ret' = [ret EXCEPT !.progressStep = IF @ < 6 THEN @ + 1 ELSE @]
    /\ UNCHANGED <<args, pc>>

\* a tick of messageInterval
MessageTick ==
    /\ pc.intervals
    /\ IF pc.messageIndex < Len(progressMessages) - 1
       THEN /\ pc' = [pc EXCEPT !.messageIndex = @ + 1]
            /\ ret' = [ret EXCEPT
                         !.progressMessage = progressMessages[pc.messageIndex + 2]]
       ELSE UNCHANGED <<pc, ret>>
    /\ UNCHANGED args

\* the catch and finally blocks of handleCompare
Failed(message) ==
    [ret EXCEPT !.error = OrString(message, <<"An error occurred">>),
                !.progressMessage = <<>>, !.progressStep = 0,
                !.loading = FALSE]

\* the fetch resolves with a response
FetchResponds ==
    /\ pc.at = "fetching"
    /\ \E response \in PageResponses :
          pc' = [pc EXCEPT !.at = "parsing", !.intervals = FALSE,
                           !.response = <<response>>]
    /\ ret' = [ret EXCEPT !.progressMessage = <<"Processing results...">>,
                          !.progressStep = 6]
    /\ UNCHANGED args

\* the fetch rejects
FetchRejects ==
    /\ pc.at = "fetching"
    /\ pc' = [pc EXCEPT !.at = "idle", !.intervals = FALSE]
    /\ ret' = Failed(<<"fetch failed">>)
    /\ UNCHANGED args

\* response.json() settles, and the call runs to its end
JsonSettles ==
    /\ pc.at = "parsing"
    /\ LET response == pc.response[1]
       IN  IF response.json = <<>>
           THEN /\ ret' = Failed(<<"Failed to parse response: Unknown error">>)
                /\ pc' = [pc EXCEPT !.at = "idle"]
           ELSE IF ~response.ok \/ ~response.json[1].success
           THEN /\ ret' = Failed(OrString(response.json[1].error,
                                          <<"Failed to compare versions">>))
                /\ pc' = [pc EXCEPT !.at = "idle"]
           ELSE /\ pc.resetTimers < MaxResetTimers
                /\ ret' = [ret EXCEPT
                             !.progressMessage = <<"Comparison complete!">>,
                             !.progressStep = 7,
                             !.result = <<response.json[1]>>,
                             !.loading = FALSE]
                /\ pc' = [pc EXCEPT !.at = "idle", !.resetTimers = @ + 1]
    /\ UNCHANGED args

\* a 1500 ms timer set by a successful call fires
ResetTimerFires ==
    /\ pc.resetTimers > 0
    /\ pc' = [pc EXCEPT !.resetTimers = @ - 1]
    /\ ret' = [ret EXCEPT !.progressMessage = <<>>, !.progressStep = 0]
    /\ UNCHANGED args

NextPage ==
    \/ SelectExample \/ ToggleIgnoreLabels \/ SubmitForm \/ StartFetch
    \/ ProgressTick \/ MessageTick \/ FetchResponds \/ FetchRejects
    \/ JsonSettles \/ ResetTimerFires

SpecPage == InitPage /\ [][NextPage]_vars

\* C22: the DiffDisplay that shows the result of a comparison submitted
\* with the box checked gets ignoreLabels = true, and one submitted with
\* the box unchecked gets false or undefined.
C22_IgnoreLabelsReachesDiffDisplay ==
    DiffDisplayProps(ret) # <<>> =>
        IF pc.body[1].ignoreLabels = <<TRUE>>
        THEN DiffDisplayProps(ret)[1].ignoreLabels = <<TRUE>>
        ELSE DiffDisplayProps(ret)[1].ignoreLabels \in {<<>>, <<FALSE>>}

\* C28: while a comparison is in flight (loading is true), progressStep is
\* between 1 and 7 and progressMessage is not empty.
C28_ProgressWhileLoading ==
    ret.loading =>
        /\ ret.progressStep \in 1..7
        /\ ret.progressMessage # <<>>

\* a string option that was given: present and not the empty string
Given(option) == option # Undefined /\ option # <<>>

\* C23: the values flag of the two helm template runs names the file
\* written from valuesContent in the work directory whenever valuesContent
\* is given, a path under the cloned repository when only valuesFile is
\* given, and is absent when neither is given.
C23_ValuesFileSelection ==
    ret.rendered # <<>> =>
        LET flag == ret.rendered[1].valuesFlag
        IN  IF Given(args.valuesContent)
            THEN flag = <<"-f", " ">> \o WorkPath \o <<"/", "values.yaml">>
            ELSE IF Given(args.valuesFile)
            THEN /\ StartsWith(flag, <<"-f", " ">> \o RepoPath \o <<"/">>)
                 /\ Len(flag) > Len(RepoPath) + 3
            ELSE flag = <<>>

\* the omitted stretches that lie between two kept ranges: the first index
\* of each run of lines farther than c from every change that has a kept
\* line before it and a kept line after it
OmittedBetween(lines, c) ==
    {j \in 2..Len(lines) :
        /\ j \notin NearChange(lines, c)
        /\ (j - 1) \in NearChange(lines, c)
        /\ \E k \in (j + 1)..Len(lines) : k \in NearChange(lines, c)}

\* C24: for contextLines c >= 0 and a group with a changed line, the result
\* of applyContextLines holds one "..." line for each stretch of omitted
\* lines between two kept ranges, and no other.
C24_SeparatorOnlyWhereOmitted ==
    (pc = "returned" /\ args.contextLines >= 0
        /\ \E i \in 1..Len(args.lines) : IsChange(args.lines[i]))
    => Len(ret) - Len(WithoutSeparators(ret))
         = Cardinality(OmittedBetween(args.lines, args.contextLines))

\* C25: the Statistics of a render are those of the render of the same
\* props with any other non-negative contextLines.
C25_StatisticsIgnoreContextLines ==
    (pc = "rendered" /\ args.contextLines >= 0) =>
        \A c \in 0..DefaultContextLines :
            DiffDisplay([args EXCEPT !.contextLines = c]).statistics = ret.statistics

\* a is b with some of its elements left out
RECURSIVE IsSubsequence(_, _)
IsSubsequence(a, b) ==
    IF a = <<>> THEN TRUE
    ELSE IF b = <<>> THEN FALSE
    ELSE IF Head(a) = Head(b) THEN IsSubsequence(Tail(a), Tail(b))
    ELSE IsSubsequence(a, Tail(b))

\* C26: with ignoreLabels the lines the metadata filter keeps are the lines
\* of the diff with some of them left out, in their order.
C26_FilterOnlyRemoves ==
    (pc = "rendered" /\ args.ignoreLabels) =>
        IsSubsequence(MetaLoop(args.diff, 0, FALSE, <<>>), args.diff)

(***************************************************************************)
(* Specification SpecSuppress: the secret handling step on texts in which  *)
(* a key may stand alone on its line, as 'data:' does in a Secret          *)
(***************************************************************************)
MaxSuppressLen == 3  \* longest text given to the secret handling step, in lines

BareData      == <<"data", ":">>
BareValue     == <<" ", " ", "value", ":">>
PasswordEntry == <<" ", " ", "password", ":", " ", "c2VjcmV0">>
PlainEntry    == <<" ", " ", "plain">>

SuppressVocabulary ==
    {BareData, BareValue, PasswordEntry, PlainEntry, BlankLine,
     ValueKey \o ShortBase64, DataKey \o <<"user", ":", "pass">>}

InitSuppress ==
    /\ pc = "secretHandling"
    /\ args \in [text : SeqsUpTo(SuppressVocabulary, MaxSuppressLen) \ {<<>>},
                 secretHandling : {"suppress"}]
    /\ ret = None

SpecSuppress == InitSuppress /\ [][NextSecret]_vars

\* the line holds a 'data:' or 'value:' key, in any letter case, with a
\* value after it on the line
HoldsKeyWithValue(line) ==
    \E key \in {"data", "value"} :
        /\ KeyIndex(line, key, TRUE) # 0
        /\ ValueAfter(line, KeyIndex(line, key, TRUE)) # <<>>

\* C27: under 'suppress' the text keeps its number of lines, and a line
\* without a 'data:' or 'value:' key that has its value on the same line is
\* left as it is.
C27_SuppressIsLineLocal ==
    (pc = "returned" /\ args.secretHandling = "suppress") =>
        /\ Len(ret) = Len(args.text)
        /\ \A k \in 1..Len(args.text) :
              ~HoldsKeyWithValue(args.text[k]) => ret[k] = args.text[k]

(***************************************************************************)
(* CompareForm: the versions of the repository typed into the form         *)
(***************************************************************************)
\* what POST /api/versions answers for a repository: the tags and branches
\* of the first two, an error for the third
VersionsResponse(repository) ==
    IF repository = <<"https", ":", "/", "/", "github.com/test/a.git">>
    THEN [success |-> TRUE, versions |-> << <<"v1.0.0">>, <<"v1.1.0">> >>,
          error |-> Undefined]
    ELSE IF repository = <<"git", "@", "github.com:test/b.git">>
    THEN [success |-> TRUE, versions |-> << <<"main">> >>, error |-> Undefined]
    ELSE [success |-> FALSE, versions |-> <<>>,
          error |-> <<"Failed to fetch versions from repository">>]

\* the versions and versionsError fetchVersions leaves for a response
AfterResponse(data) ==
    IF data.success
    THEN IF Len(data.versions) > 0
         THEN [versions |-> data.versions, versionsError |-> <<>>]
         ELSE [versions |-> <<>>,
               versionsError |-> <<"No tags or branches found in repository">>]
    ELSE [versions |-> <<>>,
          versionsError |-> OrString(data.error, <<"Failed to fetch versions">>)]

(***************************************************************************)
(* SpecVersions: the repository field under the user's typing.  args is    *)
(* formData.repository; ret is versions, versionsError and                 *)
(* loadingVersions; pc holds the debounce timer of the last effect (the    *)
(* repository it closed over, <<>> once it has fired) and the repositories *)
(* of the fetches in flight, in the order they were started.               *)
(***************************************************************************)
MaxInFlight == 2

FormRepositories ==
    { <<>>, <<"invalid", "-", "url">>,
      <<"https", ":", "/", "/", "github.com/test/a.git">>,
      <<"git", "@", "github.com:test/b.git">>,
      <<"https", ":", "/", "/", "github.com/test/missing.git">> }

RemoveAt(s, k) == SubSeq(s, 1, k - 1) \o SubSeq(s, k + 1, Len(s))

InitVersions ==
    /\ args = <<>>
    /\ ret = [versions |-> <<>>, versionsError |-> <<>>, loadingVersions |-> FALSE]
    /\ pc = [debounce |-> << <<>> >>, inFlight |-> <<>>]

\* onChange of the repository input: the effect's cleanup clears the timer
\* of the previous value and the effect sets one for the new value
TypeRepository ==
    /\ \E repository \in FormRepositories \ {args} :
          /\ args' = repository
          /\ pc' = [pc EXCEPT !.debounce = <<repository>>]
    /\ UNCHANGED ret

\* the 1000 ms timer fires: fetchVersions up to its await
DebounceFires ==
    /\ pc.debounce # <<>>
    /\ LET repository == pc.debounce[1]
       IN  IF ~Truthy(repository) \/ ~RepositoryMatches(repository)
           THEN /\ ret' = [ret EXCEPT !.versions = <<>>, !.versionsError = <<>>]
                /\ pc' = [pc EXCEPT !.debounce = <<>>]
           ELSE /\ Len(pc.inFlight) < MaxInFlight
                /\ ret' = [ret EXCEPT !.loadingVersions = TRUE,
                                      !.versionsError = <<>>]
                /\ pc' = [pc EXCEPT !.debounce = <<>>,
                                    !.inFlight = Append(@, repository)]
    /\ UNCHANGED args

\* the response of one of the fetches arrives: the rest of fetchVersions
VersionsArrive ==
    /\ \E k \in 1..Len(pc.inFlight) :
          LET after == AfterResponse(VersionsResponse(pc.inFlight[k]))
          IN  /\ ret' = [versions |-> after.versions,
                         versionsError |-> after.versionsError,
                         loadingVersions |-> FALSE]
              /\ pc' = [pc EXCEPT !.inFlight = RemoveAt(@, k)]
    /\ UNCHANGED args

NextVersions == TypeRepository \/ DebounceFires \/ VersionsArrive

SpecVersions == InitVersions /\ [][NextVersions]_vars

\* the versions and versionsError that belong to a repository value
VersionsFor(repository) ==
    IF repository = <<>> \/ ~HasRepositoryPrefix(repository)
    THEN [versions |-> <<>>, versionsError |-> <<>>]
    ELSE AfterResponse(VersionsResponse(repository))

\* C29: loadingVersions is true while a fetch is in flight, and with no
\* fetch in flight and no debounce timer pending the versions and
\* versionsError are those of the repository in the form.
C29_VersionsOfCurrentRepository ==
    /\ pc.inFlight # <<>> => ret.loadingVersions
    /\ (pc.inFlight = <<>> /\ pc.debounce = <<>>) =>
          /\ ret.versions = VersionsFor(args).versions
          /\ ret.versionsError = VersionsFor(args).versionsError

(***************************************************************************)
(* compareWithDyff's temporary files under concurrent requests             *)
(***************************************************************************)
MaxClock    == 2     \* last millisecond of the clock
MaxRequests == 2     \* requests running compareWithDyff

Requests == 1..MaxRequests

\* path.join(this.workDir, `dyff-v1-${Date.now()}.yaml`) and its dyff-v2
\* twin: the names depend on the clock alone, every HelmService has the
\* same workDir
TempFile(which, now) == <<which, now>>

TempFiles == {"dyff-v1", "dyff-v2"} \X (0..MaxClock)

(***************************************************************************)
(* SpecTempFiles: MaxRequests calls inside compareWithDyff.  pc[r] is the  *)
(* await request r is at; args is the clock, Date.now(); ret holds the     *)
(* files of workDir (for each name the request whose rendered manifest it  *)
(* holds, 0 when there is no such file), the time stamp in each request's  *)
(* file names and what each request's dyff run was given.                  *)
(***************************************************************************)
InitTempFiles ==
    /\ pc = [r \in Requests |-> "render"]
    /\ args = 0
    /\ ret = [files |-> [f \in TempFiles |-> 0],
              stamp |-> [r \in Requests |-> 0],
              read  |-> [r \in Requests |-> <<>>]]

\* a millisecond passes
ClockTick ==
    /\ args < MaxClock
    /\ args' = args + 1
    /\ UNCHANGED <<pc, ret>>

\* both helm template runs are done: tmp1 and tmp2 are named
NameTempFiles(r) ==
    /\ pc[r] = "render"
    /\ ret' = [ret EXCEPT !.stamp[r] = args]
    /\ pc' = [pc EXCEPT ![r] = "write1"]
    /\ UNCHANGED args

\* await fs.writeFile(tmp1, rendered1)
WriteTmp1(r) ==
    /\ pc[r] = "write1"
    /\ ret' = [ret EXCEPT !.files[TempFile("dyff-v1", ret.stamp[r])] = r]
    /\ pc' = [pc EXCEPT ![r] = "write2"]
    /\ UNCHANGED args

\* await fs.writeFile(tmp2, rendered2)
WriteTmp2(r) ==
    /\ pc[r] = "write2"
    /\ ret' = [ret EXCEPT !.files[TempFile("dyff-v2", ret.stamp[r])] = r]
    /\ pc' = [pc EXCEPT ![r] = "dyff"]
    /\ UNCHANGED args

\* dyff between tmp1 and tmp2 reads the two files as they are then
DyffBetween(r) ==
    /\ pc[r] = "dyff"
    /\ ret' = [ret EXCEPT !.read[r] =
                 <<ret.files[TempFile("dyff-v1", ret.stamp[r])],
                   ret.files[TempFile("dyff-v2", ret.stamp[r])]>>]
    /\ pc' = [pc EXCEPT ![r] = "unlink1"]
    /\ UNCHANGED args

\* await fs.unlink(tmp1).catch(() => {})
UnlinkTmp1(r) ==
    /\ pc[r] = "unlink1"
    /\ ret' = [ret EXCEPT !.files[TempFile("dyff-v1", ret.stamp[r])] = 0]
    /\ pc' = [pc EXCEPT ![r] = "unlink2"]
    /\ UNCHANGED args

\* await fs.unlink(tmp2).catch(() => {})
UnlinkTmp2(r) ==
    /\ pc[r] = "unlink2"
    /\ ret' = [ret EXCEPT !.files[TempFile("dyff-v2", ret.stamp[r])] = 0]
    /\ pc' = [pc EXCEPT ![r] = "returned"]
    /\ UNCHANGED args

NextTempFiles ==
    \/ ClockTick
    \/ \E r \in Requests :
          \/ NameTempFiles(r) \/ WriteTmp1(r) \/ WriteTmp2(r)
          \/ DyffBetween(r) \/ UnlinkTmp1(r) \/ UnlinkTmp2(r)

SpecTempFiles == InitTempFiles /\ [][NextTempFiles]_vars

\* C30: from the moment a request has written its two files to the moment
\* it deletes them, both hold that request's own manifests, and its diff
\* tool read that request's own manifests.
C30_TempFilesAreNotShared ==
    \A r \in Requests :
        /\ pc[r] \in {"dyff", "unlink1"} =>
              /\ ret.files[TempFile("dyff-v1", ret.stamp[r])] = r
              /\ ret.files[TempFile("dyff-v2", ret.stamp[r])] = r
        /\ ret.read[r] # <<>> => ret.read[r] = <<r, r>>

=============================================================================
